---------------------------- MODULE Spec2Model ----------------------------
(***************************************************************************)
(* Model of the order/catalog reconciliation pipeline of                   *)
(* backend/upload_processor.py (class UploadProcessor).                    *)
(*                                                                         *)
(* Conventions                                                             *)
(*  - A string (column name or text cell) is a sequence of characters.     *)
(*    ASCII characters are one-letter strings; every Chinese character is  *)
(*    written as its pinyin syllable with a tone digit ("ding4" for 订),   *)
(*    distinct characters having distinct tokens, so that the substring    *)
(*    tests of the source are real substring tests here.                   *)
(*  - A cell is a record [k, n, m, big, s]: k = "nan" (missing), "num"     *)
(*    (the rational n/m, m > 0, in lowest terms; times 1e306 when big),    *)
(*    "pinf"/"ninf" (IEEE infinities) or "str" (the text s).  Arithmetic   *)
(*    is exact up to overflow: values of order 1e306 overflow to infinity  *)
(*    where float64 does; binary rounding noise is not modelled.           *)
(*  - A DataFrame is [cols, dt, rows]: column names, column dtypes         *)
(*    ("int", "float", "object") and rows (sequences of cells).            *)
(*  - pandas semantics are those of pandas 1.x/2.x with object-dtype text. *)
(***************************************************************************)
EXTENDS Integers, Sequences, FiniteSets, TLC

VARIABLES
  product_df,      \* self.product_df: None or the catalog DataFrame
  order_df,        \* self.order_df: None or the order DataFrame
  processed_data,  \* self.processed_data: None or the last stored result
  ret,             \* the last call or request: what was asked, and its outcome
  prov,            \* the calls made so far: which load each table came from,
                   \* the last run of the pipeline, the uploads requested
  current_processor  \* main_upload.current_processor: None or a processor
                     \* whose fields are the three variables above

vars == <<product_df, order_df, processed_data, ret, prov, current_processor>>

(***************************************************************************)
(* Strings                                                                 *)
(***************************************************************************)
UpperMap ==
  [A |-> "a", B |-> "b", C |-> "c", D |-> "d", E |-> "e", F |-> "f", G |-> "g",
   H |-> "h", I |-> "i", J |-> "j", K |-> "k", L |-> "l", M |-> "m", N |-> "n",
   O |-> "o", P |-> "p", Q |-> "q", R |-> "r", S |-> "s", T |-> "t", U |-> "u",
   V |-> "v", W |-> "w", X |-> "x", Y |-> "y", Z |-> "z"]

\* str.lower()
lower(s) ==
  [i \in 1..Len(s) |-> IF s[i] \in DOMAIN UpperMap THEN UpperMap[s[i]] ELSE s[i]]

\* Python's `kw in s` on strings
contains(s, kw) ==
  \E i \in 1..(Len(s) - Len(kw) + 1) : SubSeq(s, i, i + Len(kw) - 1) = kw

\* str.endswith
endswith(s, suf) ==
  /\ Len(s) >= Len(suf)
  /\ SubSeq(s, Len(s) - Len(suf) + 1, Len(s)) = suf

\* any(k in str(c).lower() for k in kws)
any_keyword(c, kws) ==
  \E k \in kws : contains(lower(c), k)

\* [c for c in columns if any(k in str(c).lower() for k in kws)], order kept
RECURSIVE columns_matching(_, _)
columns_matching(columns, kws) ==
  IF columns = <<>> THEN <<>>
  ELSE IF any_keyword(Head(columns), kws)
       THEN <<Head(columns)>> \o columns_matching(Tail(columns), kws)
       ELSE columns_matching(Tail(columns), kws)

\* str.strip(): leading and trailing blanks removed
RECURSIVE lstrip(_)
lstrip(s) ==
  IF s # <<>> /\ Head(s) = " " THEN lstrip(Tail(s)) ELSE s

RECURSIVE rstrip(_)
rstrip(s) ==
  IF s # <<>> /\ s[Len(s)] = " " THEN rstrip(SubSeq(s, 1, Len(s) - 1)) ELSE s

strip(s) == rstrip(lstrip(s))

(***************************************************************************)
(* Cells and float arithmetic                                              *)
(***************************************************************************)
NaN == [k |-> "nan", n |-> 0, m |-> 1, big |-> FALSE, s |-> <<>>]

PInf == [k |-> "pinf", n |-> 0, m |-> 1, big |-> FALSE, s |-> <<>>]

NInf == [k |-> "ninf", n |-> 0, m |-> 1, big |-> FALSE, s |-> <<>>]

Str(s) == [k |-> "str", n |-> 0, m |-> 1, big |-> FALSE, s |-> s]

Abs(x) == IF x < 0 THEN -x ELSE x

RECURSIVE GCD(_, _)
GCD(a, b) == IF b = 0 THEN a ELSE GCD(b, a % b)

\* the rational n/m (m > 0) in lowest terms
Num(n, m) ==
  LET g == GCD(Abs(n), m)
  IN [k |-> "num", n |-> n \div g, m |-> m \div g, big |-> FALSE, s |-> <<>>]

IntC(n) == Num(n, 1)

IsInf(a) == a.k \in {"pinf", "ninf"}

Sign(a) ==
  CASE a.k = "pinf" -> 1
    [] a.k = "ninf" -> -1
    [] a.k = "num" -> (IF a.n > 0 THEN 1 ELSE IF a.n < 0 THEN -1 ELSE 0)
    [] OTHER -> 0

InfOfSign(sg) == IF sg > 0 THEN PInf ELSE NInf

\* |n/m| * 1e306 is beyond the largest float64, 1.7976931348623157e308
\* (179.7693... units of 1e306; the digits after 179.7693 are not compared)
Overflows(n, m) ==
  \/ Abs(n) \div m > 179
  \/ Abs(n) \div m = 179 /\ (Abs(n) % m) * 10000 > 7693 * m

\* the float of value n/m (big: times 1e306), or the infinity it overflows to
Fin(n, m, big) ==
  IF n = 0 THEN IntC(0)
  ELSE IF big /\ Overflows(n, m) THEN InfOfSign(n)
  ELSE [Num(n, m) EXCEPT !.big = big]

\* the float n/m * 1e306
Big(n, m) == Fin(n, m, TRUE)

FNeg(a) ==
  CASE a.k = "pinf" -> NInf
    [] a.k = "ninf" -> PInf
    [] a.k = "num" -> Fin(-a.n, a.m, a.big)
    [] OTHER -> NaN

\* a + b; a term 300 orders of magnitude below the other is absorbed
FAdd(a, b) ==
  CASE a.k = "nan" \/ b.k = "nan" -> NaN
    [] IsInf(a) /\ IsInf(b) -> (IF a.k = b.k THEN a ELSE NaN)
    [] IsInf(a) -> a
    [] IsInf(b) -> b
    [] a.big = b.big -> Fin(a.n * b.m + b.n * a.m, a.m * b.m, a.big)
    [] OTHER -> (IF a.big THEN a ELSE b)

FSub(a, b) == FAdd(a, FNeg(b))

\* a * b; the product of two values of order 1e306 overflows
FMul(a, b) ==
  CASE a.k = "nan" \/ b.k = "nan" -> NaN
    [] IsInf(a) \/ IsInf(b) ->
         (IF Sign(a) * Sign(b) = 0 THEN NaN ELSE InfOfSign(Sign(a) * Sign(b)))
    [] a.big /\ b.big -> InfOfSign(Sign(a) * Sign(b))
    [] OTHER -> Fin(a.n * b.n, a.m * b.m, a.big \/ b.big)

\* a / b; a quotient of order 1e-306 is given as 0 (every quotient the
\* program takes of such operands is rounded to 4 decimals at once)
FDiv(a, b) ==
  CASE a.k = "nan" \/ b.k = "nan" -> NaN
    [] IsInf(a) /\ IsInf(b) -> NaN
    [] IsInf(a) -> (IF Sign(b) < 0 THEN FNeg(a) ELSE a)
    [] IsInf(b) -> IntC(0)
    [] b.n = 0 -> (IF a.n = 0 THEN NaN ELSE InfOfSign(Sign(a)))
    [] b.big /\ ~a.big -> IntC(0)
    [] OTHER -> Fin(Sign(b) * a.n * b.m, a.m * Abs(b.n), a.big /\ ~b.big)

\* a > 0 (False for NaN)
FGt0(a) == Sign(a) > 0

\* a <= 0 (False for NaN)
FLe0(a) == a.k # "nan" /\ Sign(a) <= 0

RECURSIVE Pow10(_)
Pow10(d) == IF d = 0 THEN 1 ELSE 10 * Pow10(d - 1)

\* p/q (q > 0) rounded to the nearest integer, ties to even
RoundHalfEven(p, q) ==
  LET f == p \div q
      r == p - f * q
  IN IF 2 * r < q THEN f
     ELSE IF 2 * r > q THEN f + 1
     ELSE IF f % 2 = 0 THEN f ELSE f + 1

\* Python's round(x, d) on a float: correctly rounded, never overflows
PyRound(a, d) ==
  IF a.k = "num" /\ ~a.big THEN Num(RoundHalfEven(a.n * Pow10(d), a.m), Pow10(d)) ELSE a

\* Series.round(d), numpy's rint(x * 10**d) / 10**d: NaN and infinities pass
\* through, and the scaling overflows for |x| > 1.797e308 / 10**d
FRound(a, d) ==
  IF a.k = "num" /\ a.big
  THEN (IF Overflows(a.n * Pow10(d), a.m) THEN InfOfSign(Sign(a)) ELSE a)
  ELSE PyRound(a, d)

(***************************************************************************)
(* pd.to_numeric(errors='coerce') and astype(str)                          *)
(***************************************************************************)
Digits == <<"0", "1", "2", "3", "4", "5", "6", "7", "8", "9">>

IsDigit(ch) == \E i \in 1..10 : Digits[i] = ch

DigitVal(ch) == (CHOOSE i \in 1..10 : Digits[i] = ch) - 1

AllDigits(s) == s # <<>> /\ \A i \in 1..Len(s) : IsDigit(s[i])

RECURSIVE ParseNat(_)
ParseNat(s) ==
  IF s = <<>> THEN 0
  ELSE 10 * ParseNat(SubSeq(s, 1, Len(s) - 1)) + DigitVal(s[Len(s)])

\* text of an unsigned number: digits, or digits "." digits
ParseUnsigned(s) ==
  IF AllDigits(s) THEN IntC(ParseNat(s))
  ELSE IF \E i \in 1..Len(s) :
            /\ s[i] = "."
            /\ AllDigits(SubSeq(s, 1, i - 1))
            /\ AllDigits(SubSeq(s, i + 1, Len(s)))
       THEN LET i == CHOOSE j \in 1..Len(s) : s[j] = "."
                frac == SubSeq(s, i + 1, Len(s))
            IN Num(ParseNat(SubSeq(s, 1, i - 1)) * Pow10(Len(frac)) + ParseNat(frac),
                   Pow10(Len(frac)))
       ELSE NaN

ParseText(s) ==
  LET neg == s # <<>> /\ Head(s) = "-"
      body == IF s # <<>> /\ Head(s) \in {"-", "+"} THEN Tail(s) ELSE s
      v == IF lower(body) \in {<<"i", "n", "f">>, <<"i", "n", "f", "i", "n", "i", "t", "y">>}
           THEN PInf
           ELSE ParseUnsigned(body)
  IN IF neg THEN FNeg(v) ELSE v

\* pd.to_numeric(x, errors='coerce') on one cell
to_numeric(c) == IF c.k = "str" THEN ParseText(c.s) ELSE c

\* Series.fillna(v) on one cell
fillna(c, v) == IF c.k = "nan" THEN v ELSE c

RECURSIVE NatText(_)
NatText(n) ==
  IF n < 10 THEN <<Digits[n + 1]>> ELSE NatText(n \div 10) \o <<Digits[(n % 10) + 1]>>

\* digits of the fraction r/m (0 <= r < m), m dividing a power of ten
RECURSIVE FracText(_, _)
FracText(r, m) ==
  IF r = 0 THEN <<>>
  ELSE <<Digits[((10 * r) \div m) + 1]>> \o FracText((10 * r) % m, m)

\* str(x) of a number: an int prints without a point, a float with one
NumText(c, asFloat) ==
  LET a == Abs(c.n)
      ip == NatText(a \div c.m)
      fp == FracText(a % c.m, c.m)
      sg == IF c.n < 0 THEN <<"-">> ELSE <<>>
  IN IF c.m = 1 /\ ~asFloat THEN sg \o ip
     ELSE sg \o ip \o <<".">> \o (IF fp = <<>> THEN <<"0">> ELSE fp)

\* the power of ten k with 1 <= |n/m| / 10^k < 10, for 1 <= |n/m| < 1000
Magnitude(c) ==
  IF Abs(c.n) \div c.m >= 100 THEN 2 ELSE IF Abs(c.n) \div c.m >= 10 THEN 1 ELSE 0

\* repr of a float of order 1e306 and more: mantissa "e+" exponent
BigText(c) ==
  LET fp == FracText((Abs(c.n) % (c.m * Pow10(Magnitude(c)))), c.m * Pow10(Magnitude(c)))
  IN (IF c.n < 0 THEN <<"-">> ELSE <<>>)
     \o NatText(Abs(c.n) \div (c.m * Pow10(Magnitude(c))))
     \o (IF fp = <<>> THEN <<>> ELSE <<".">> \o fp)
     \o <<"e", "+">> \o NatText(306 + Magnitude(c))

\* Series.astype(str) on one cell of a column of dtype dt
astype_str(c, dt) ==
  CASE c.k = "str" -> c.s
    [] c.k = "nan" -> <<"n", "a", "n">>
    [] c.k = "pinf" -> <<"i", "n", "f">>
    [] c.k = "ninf" -> <<"-", "i", "n", "f">>
    [] c.big -> BigText(c)
    [] OTHER -> NumText(c, dt = "float")

(***************************************************************************)
(* DataFrames                                                              *)
(***************************************************************************)
\* the value None of a field that holds a DataFrame
NoneDF == [none |-> TRUE, cols |-> <<>>, dt |-> <<>>, rows |-> <<>>]

\* pd.DataFrame()
EmptyDF == [none |-> FALSE, cols |-> <<>>, dt |-> <<>>, rows |-> <<>>]

\* DataFrame.empty: some axis has length 0
empty(df) == Len(df.cols) = 0 \/ Len(df.rows) = 0

\* a missing column (None, or a name that is falsy)
NoCol == <<>>

has_column(df, c) == \E i \in 1..Len(df.cols) : df.cols[i] = c

col_index(df, c) == CHOOSE i \in 1..Len(df.cols) : df.cols[i] = c

\* df[c] as the sequence of its cells
column(df, c) == [r \in 1..Len(df.rows) |-> df.rows[r][col_index(df, c)]]

\* dtype read_excel / pandas gives a column holding these cells
InferDtype(cells) ==
  IF \E i \in 1..Len(cells) : cells[i].k = "str" THEN "object"
  ELSE IF \A i \in 1..Len(cells) : cells[i].k = "num" /\ cells[i].m = 1 /\ ~cells[i].big
       THEN "int"
  ELSE "float"

\* a DataFrame built from column names and rows, dtypes inferred
Frame(cols, rows) ==
  [none |-> FALSE, cols |-> cols,
   dt |-> [c \in 1..Len(cols) |-> InferDtype([r \in 1..Len(rows) |-> rows[r][c]])],
   rows |-> rows]

\* df[c] = cells (an existing column is replaced in place, a new one appended)
set_column(df, c, cells) ==
  IF has_column(df, c)
  THEN LET i == col_index(df, c)
       IN [df EXCEPT !.dt[i] = InferDtype(cells),
                     !.rows = [r \in 1..Len(df.rows) |-> [df.rows[r] EXCEPT ![i] = cells[r]]]]
  ELSE [df EXCEPT !.cols = Append(df.cols, c),
                  !.dt = Append(df.dt, InferDtype(cells)),
                  !.rows = [r \in 1..Len(df.rows) |-> Append(df.rows[r], cells[r])]]

\* the elements of s at the positions where mask is TRUE, order kept
RECURSIVE mask_select(_, _)
mask_select(s, mask) ==
  IF s = <<>> THEN <<>>
  ELSE (IF Head(mask) THEN <<Head(s)>> ELSE <<>>) \o mask_select(Tail(s), Tail(mask))

\* df[mask]: the rows where the boolean mask holds (dtypes are kept)
select_rows(df, mask) == [df EXCEPT !.rows = mask_select(df.rows, mask)]

\* Series.sum() of numeric cells, left to right
RECURSIVE series_sum(_)
series_sum(cells) ==
  IF cells = <<>> THEN IntC(0)
  ELSE FAdd(series_sum(SubSeq(cells, 1, Len(cells) - 1)), cells[Len(cells)])

\* Series.nunique(): distinct non-missing values
nunique(cells) == Cardinality({cells[i] : i \in {j \in 1..Len(cells) : cells[j].k # "nan"}})

(***************************************************************************)
(* Keyword tables of the column classifier (upload_processor.py)           *)
(***************************************************************************)
\* ['订单标记','标记','mark']
MarkKeywords ==
  {<<"ding4", "dan1", "biao1", "ji4">>, <<"biao1", "ji4">>, <<"m", "a", "r", "k">>}

\* ['买家实付','实付','金额','付款']
CleanAmountKeywords ==
  {<<"mai3", "jia1", "shi2", "fu4">>, <<"shi2", "fu4">>, <<"jin1", "e2">>,
   <<"fu4", "kuan3">>}

\* ['状态','status']
StatusKeywords ==
  {<<"zhuang4", "tai4">>, <<"s", "t", "a", "t", "u", "s">>}

\* ['订单号','订单编号','order']
OrderIdKeywords ==
  {<<"ding4", "dan1", "hao4">>, <<"ding4", "dan1", "bian1", "hao4">>,
   <<"o", "r", "d", "e", "r">>}

\* ['店铺','shop']
ShopKeywords ==
  {<<"dian4", "pu4">>, <<"s", "h", "o", "p">>}

\* '空单'
TxtEmptyOrder == <<"kong1", "dan1">>

\* '关闭'
TxtClosed == <<"guan1", "bi4">>

\* '退款'
TxtRefund == <<"tui4", "kuan3">>

\* '[线下订单]'
TxtOffline == <<"[", "xian4", "xia4", "ding4", "dan1", "]">>

(***************************************************************************)
(* UploadProcessor.clean_order_data                                        *)
(***************************************************************************)
\* filter_options: `given` is its truthiness, selected_shops the list (a set
\* of texts; empty when the key is absent, None or []), and the two include_*
\* flags a request carries (FALSE when the key is absent)
NoOptions ==
  [given |-> FALSE, selected_shops |-> {},
   include_closed_orders |-> FALSE, include_offline_orders |-> FALSE]

\* cols[0] if cols else None
first_column(cols) == IF cols # <<>> THEN cols[1] ELSE NoCol

\* df[c] = pd.to_numeric(df[c], errors='coerce').fillna(v), when c is a column
coerce_column(df, c, v) ==
  IF c = NoCol THEN df
  ELSE set_column(df, c, [r \in 1..Len(df.rows) |->
                            fillna(to_numeric(df.rows[r][col_index(df, c)]), v)])

\* an exclusion that reads the first status column only
base_filter_row_first_status(df, r, order_mark_columns, status_columns) ==
  /\ order_mark_columns # <<>> =>
       ~contains(astype_str(df.rows[r][col_index(df, order_mark_columns[1])],
                            df.dt[col_index(df, order_mark_columns[1])]),
                 TxtEmptyOrder)
  /\ status_columns # <<>> =>
       /\ astype_str(df.rows[r][col_index(df, status_columns[1])],
                     df.dt[col_index(df, status_columns[1])]) \notin {TxtClosed, TxtOffline}
       /\ ~contains(astype_str(df.rows[r][col_index(df, status_columns[1])],
                               df.dt[col_index(df, status_columns[1])]), TxtRefund)

\* one row passes the mark/status exclusion (np.logical_and.reduce(filters))
base_filter_row(df, r, order_mark_columns, status_columns) ==
  /\ order_mark_columns # <<>> =>
       ~contains(astype_str(df.rows[r][col_index(df, order_mark_columns[1])],
                            df.dt[col_index(df, order_mark_columns[1])]),
                 TxtEmptyOrder)
  /\ \A j \in 1..Len(status_columns) :
       /\ astype_str(df.rows[r][col_index(df, status_columns[j])],
                     df.dt[col_index(df, status_columns[j])]) # TxtClosed
       /\ ~contains(astype_str(df.rows[r][col_index(df, status_columns[j])],
                               df.dt[col_index(df, status_columns[j])]), TxtRefund)
       /\ astype_str(df.rows[r][col_index(df, status_columns[j])],
                     df.dt[col_index(df, status_columns[j])]) # TxtOffline

\* base_df = df[base_filter]
base_df_of(df) ==
  select_rows(df, [r \in 1..Len(df.rows) |->
                     base_filter_row(df, r, columns_matching(df.cols, MarkKeywords),
                                     columns_matching(df.cols, StatusKeywords))])

\* the sum of the amounts of the rows whose order number equals id
group_sum(ids, amts, id) ==
  series_sum(mask_select(amts, [j \in 1..Len(ids) |-> ids[j] = id]))

\* a grouping that puts the rows without an order number into one group
order_sum_missing_grouped(base_df, order_id_col, amount_col) ==
  [r \in 1..Len(base_df.rows) |->
     group_sum(column(base_df, order_id_col), column(base_df, amount_col),
               column(base_df, order_id_col)[r])]

\* a filter that looks at each row's own amount instead of its order's sum
order_sum_rowlevel(base_df, order_id_col, amount_col) == column(base_df, amount_col)

\* base_df.groupby(order_id_col)[amount_col].transform('sum'): per row the sum
\* of its group; rows whose key is missing are in no group and get NaN
order_sum(base_df, order_id_col, amount_col) ==
  [r \in 1..Len(base_df.rows) |->
     IF column(base_df, order_id_col)[r].k = "nan" THEN NaN
     ELSE group_sum(column(base_df, order_id_col), column(base_df, amount_col),
                    column(base_df, order_id_col)[r])]

\* df[sums > 0]
keep_positive(df, sums) ==
  select_rows(df, [r \in 1..Len(df.rows) |-> FGt0(sums[r])])

\* the order-level amount filter, or its row-level fallback
amount_filter(base_df, amount_col, order_id_col) ==
  IF amount_col # NoCol /\ order_id_col # NoCol
  THEN keep_positive(base_df, order_sum(base_df, order_id_col, amount_col))
  ELSE IF amount_col # NoCol
  THEN keep_positive(base_df, column(base_df, amount_col))
  ELSE base_df

\* a shop filter that lets rows without a shop through
shop_filter_keep_missing(cleaned_df, filter_options, shop_cols) ==
  IF filter_options.given /\ filter_options.selected_shops # {} /\ shop_cols # <<>>
  THEN select_rows(cleaned_df,
         [r \in 1..Len(cleaned_df.rows) |->
            \/ column(cleaned_df, shop_cols[1])[r].k = "nan"
            \/ column(cleaned_df, shop_cols[1])[r].s \in filter_options.selected_shops])
  ELSE cleaned_df

\* cleaned_df[cleaned_df[shop_cols[0]].isin(selected)], when a filter is given
shop_filter(cleaned_df, filter_options, shop_cols) ==
  IF filter_options.given /\ filter_options.selected_shops # {} /\ shop_cols # <<>>
  THEN select_rows(cleaned_df,
         [r \in 1..Len(cleaned_df.rows) |->
            /\ column(cleaned_df, shop_cols[1])[r].k = "str"
            /\ column(cleaned_df, shop_cols[1])[r].s \in filter_options.selected_shops])
  ELSE cleaned_df

clean_order_data(self_order_df, filter_options) ==
  IF self_order_df.none THEN EmptyDF
  ELSE shop_filter(
         amount_filter(
           base_df_of(coerce_column(self_order_df,
                        first_column(columns_matching(self_order_df.cols, CleanAmountKeywords)),
                        IntC(0))),
           first_column(columns_matching(self_order_df.cols, CleanAmountKeywords)),
           first_column(columns_matching(self_order_df.cols, OrderIdKeywords))),
         filter_options,
         columns_matching(self_order_df.cols, ShopKeywords))

(***************************************************************************)
(* UploadProcessor.match_products_with_orders                              *)
(***************************************************************************)
\* ['商家编码','sku','编号','商品编码','货号','code'] (the same set on both sides)
SkuKeywords ==
  {<<"shang1", "jia1", "bian1", "ma3">>, <<"s", "k", "u">>, <<"bian1", "hao4">>,
   <<"shang1", "pin3", "bian1", "ma3">>, <<"huo4", "hao4">>, <<"c", "o", "d", "e">>}

\* '匹配状态'
ColMatchStatus == <<"pi3", "pei4", "zhuang4", "tai4">>

\* '未匹配'
TxtUnmatched == <<"wei4b", "pi3", "pei4">>

\* '匹配失败'
TxtMatchFailed == <<"pi3", "pei4", "shi1", "bai4">>

SuffixOrder == <<"_", "o", "r", "d", "e", "r">>

SuffixProduct == <<"_", "p", "r", "o", "d", "u", "c", "t">>

\* a method's outcome: a returned DataFrame, or an exception leaving the method
Returned(df) == [raised |-> FALSE, df |-> df]

Raised == [raised |-> TRUE, df |-> EmptyDF]

\* df[c] = df[c].astype(str).str.strip()
normalize_key(df, c) ==
  set_column(df, c, [r \in 1..Len(df.rows) |->
                       Str(strip(astype_str(df.rows[r][col_index(df, c)],
                                            df.dt[col_index(df, c)])))])

\* order_df[c] = text on every row
tag_column(df, c, text) ==
  set_column(df, c, [r \in 1..Len(df.rows) |-> Str(text)])

\* the positions from `from` on where the mask holds, ascending
RECURSIVE positions(_, _)
positions(mask, from) ==
  IF from > Len(mask) THEN <<>>
  ELSE (IF mask[from] THEN <<from>> ELSE <<>>) \o positions(mask, from + 1)

\* the sequence s without its i-th element
drop_at(s, i) == SubSeq(s, 1, i - 1) \o SubSeq(s, i + 1, Len(s))

\* the catalog rows that one order row joins: every row with an equal key
join_partners(rrows, rk, key) ==
  positions([j \in 1..Len(rrows) |-> rrows[j][rk] = key], 1)

\* the merged rows of one order row l with its partners ps (NaN-filled if none)
joined_rows(l, ps, rrows, width, rk, same) ==
  IF ps = <<>> THEN <<l \o [i \in 1..width |-> NaN]>>
  ELSE [x \in 1..Len(ps) |->
          l \o (IF same THEN drop_at(rrows[ps[x]], rk) ELSE rrows[ps[x]])]

\* the rows of a left join, left order kept
RECURSIVE merge_rows(_, _, _, _, _, _)
merge_rows(lrows, rrows, width, lk, rk, same) ==
  IF lrows = <<>> THEN <<>>
  ELSE joined_rows(Head(lrows), join_partners(rrows, rk, Head(lrows)[lk]),
                   rrows, width, rk, same)
       \o merge_rows(Tail(lrows), rrows, width, lk, rk, same)

\* the column names of the join: a name on both sides gets the two suffixes
merge_columns(lcols, rcols) ==
  [i \in 1..Len(lcols) |->
     IF \E j \in 1..Len(rcols) : rcols[j] = lcols[i]
     THEN lcols[i] \o SuffixOrder ELSE lcols[i]]
  \o [i \in 1..Len(rcols) |->
     IF \E j \in 1..Len(lcols) : lcols[j] = rcols[i]
     THEN rcols[i] \o SuffixProduct ELSE rcols[i]]

\* left.merge(right, left_on=, right_on=, how='left', suffixes=('_order','_product'));
\* a key of the same name on both sides gives one key column
merge(left, right, left_on, right_on) ==
  IF left_on = right_on
  THEN Frame(merge_columns(left.cols, drop_at(right.cols, col_index(right, right_on))),
             merge_rows(left.rows, right.rows, Len(right.cols) - 1,
                        col_index(left, left_on), col_index(right, right_on), TRUE))
  ELSE Frame(merge_columns(left.cols, right.cols),
             merge_rows(left.rows, right.rows, Len(right.cols),
                        col_index(left, left_on), col_index(right, right_on), FALSE))

\* the join tried for one (product_col, order_col) pairing
pair_join(self_product_df, order_df_arg, product_col, order_col) ==
  merge(normalize_key(order_df_arg, order_col),
        normalize_key(self_product_df, product_col), order_col, product_col)

\* len(matched_df[matched_df[product_col].notna()])
matched_count(matched_df, product_col) ==
  Cardinality({r \in 1..Len(matched_df.rows) :
                 column(matched_df, product_col)[r].k # "nan"})

\* a comparison that also lets a later pairing of equal score win
better_match_or_equal(count, best_match_count) == count >= best_match_count

\* the comparison that replaces the best pairing so far
better_match(count, best_match_count) == count > best_match_count

NoBest == [raised |-> FALSE, best_match_count |-> 0, best_matched_df |-> NoneDF]

\* one pass of the loop body: KeyError when the join has no column product_col
consider(best, matched_df, product_col) ==
  IF ~has_column(matched_df, product_col) THEN [best EXCEPT !.raised = TRUE]
  ELSE IF better_match(matched_count(matched_df, product_col), best.best_match_count)
  THEN [raised |-> FALSE,
        best_match_count |-> matched_count(matched_df, product_col),
        best_matched_df |-> matched_df]
  ELSE best

\* the nested loops over (product_col, order_col), left to right
RECURSIVE try_pairs(_, _, _, _)
try_pairs(self_product_df, order_df_arg, pairs, best) ==
  IF pairs = <<>> \/ best.raised THEN best
  ELSE try_pairs(self_product_df, order_df_arg, Tail(pairs),
                 consider(best,
                          pair_join(self_product_df, order_df_arg,
                                    Head(pairs)[1], Head(pairs)[2]),
                          Head(pairs)[1]))

\* for product_col in product_sku_cols: for order_col in order_sku_cols
candidate_pairs(product_sku_cols, order_sku_cols) ==
  [x \in 1..(Len(product_sku_cols) * Len(order_sku_cols)) |->
     <<product_sku_cols[((x - 1) \div Len(order_sku_cols)) + 1],
       order_sku_cols[((x - 1) % Len(order_sku_cols)) + 1]>>]

\* what the method returns once the loops are over
match_result(best, order_df_arg) ==
  IF best.raised THEN Raised
  ELSE IF ~best.best_matched_df.none /\ best.best_match_count > 0
  THEN Returned(best.best_matched_df)
  ELSE Returned(tag_column(order_df_arg, ColMatchStatus, TxtMatchFailed))

\* a matcher that returns the orders as they are when a side has no code column
match_without_tag(self_product_df, order_df_arg) ==
  IF self_product_df.none \/ empty(order_df_arg) THEN Returned(EmptyDF)
  ELSE IF columns_matching(self_product_df.cols, SkuKeywords) = <<>>
          \/ columns_matching(order_df_arg.cols, SkuKeywords) = <<>>
  THEN Returned(order_df_arg)
  ELSE match_result(
         try_pairs(self_product_df, order_df_arg,
                   candidate_pairs(columns_matching(self_product_df.cols, SkuKeywords),
                                   columns_matching(order_df_arg.cols, SkuKeywords)),
                   NoBest),
         order_df_arg)

match_products_with_orders(self_product_df, order_df_arg) ==
  IF self_product_df.none \/ empty(order_df_arg) THEN Returned(EmptyDF)
  ELSE IF columns_matching(self_product_df.cols, SkuKeywords) = <<>>
          \/ columns_matching(order_df_arg.cols, SkuKeywords) = <<>>
  THEN Returned(tag_column(order_df_arg, ColMatchStatus, TxtUnmatched))
  ELSE match_result(
         try_pairs(self_product_df, order_df_arg,
                   candidate_pairs(columns_matching(self_product_df.cols, SkuKeywords),
                                   columns_matching(order_df_arg.cols, SkuKeywords)),
                   NoBest),
         order_df_arg)

(***************************************************************************)
(* UploadProcessor.calculate_costs_and_profits                             *)
(***************************************************************************)
\* ['成本', '进货', '采购', 'cost']
CostKeywords ==
  {<<"cheng2", "ben3">>, <<"jin4", "huo4">>, <<"cai3", "gou4">>, <<"c", "o", "s", "t">>}

\* ['数量','件数','qty','num','购买数量','下单数量','宝贝总数量']
QtyKeywords ==
  {<<"shu4", "liang4">>, <<"jian4", "shu4">>, <<"q", "t", "y">>, <<"n", "u", "m">>,
   <<"gou4", "mai3", "shu4", "liang4">>, <<"xia4", "dan1", "shu4", "liang4">>,
   <<"bao3", "bei4", "zong3", "shu4", "liang4">>}

\* ['买家实付','实付','付款','应付','支付','金额','收款','成交价','支付金额']
CalcAmountKeywords ==
  {<<"mai3", "jia1", "shi2", "fu4">>, <<"shi2", "fu4">>, <<"fu4", "kuan3">>,
   <<"ying1", "fu4">>, <<"zhi1", "fu4">>, <<"jin1", "e2">>, <<"shou1", "kuan3">>,
   <<"cheng2", "jiao1", "jia4">>, <<"zhi1", "fu4", "jin1", "e2">>}

\* '单位成本'
ColUnitCost == <<"dan1", "wei4", "cheng2", "ben3">>

\* '数量'
ColQuantity == <<"shu4", "liang4">>

\* '销售收入'
ColRevenue == <<"xiao1", "shou4", "shou1", "ru4">>

\* '总成本'
ColTotalCost == <<"zong3", "cheng2", "ben3">>

\* '利润'
ColProfit == <<"li4", "run4">>

\* '毛利率'
ColMargin == <<"mao2", "li4", "lv4">>

\* '数据处理时间'
ColProcessedAt == <<"shu4", "ju4", "chu3", "li3", "shi2b", "jian1">>

\* datetime.now().strftime(...): some text; no decision reads it
TxtNow == <<"n", "o", "w">>

is_cost_name(name) == any_keyword(name, CostKeywords)

\* [c for c in columns if c.endswith('_product') and is_cost_name(c)]
RECURSIVE suffixed_cost_cols(_)
suffixed_cost_cols(columns) ==
  IF columns = <<>> THEN <<>>
  ELSE (IF endswith(Head(columns), SuffixProduct) /\ is_cost_name(Head(columns))
        THEN <<Head(columns)>> ELSE <<>>) \o suffixed_cost_cols(Tail(columns))

\* [c for c in self.product_df.columns if is_cost_name(c) and c in df.columns]
RECURSIVE fallback_cost_cols(_, _)
fallback_cost_cols(product_columns, df) ==
  IF product_columns = <<>> THEN <<>>
  ELSE (IF is_cost_name(Head(product_columns)) /\ has_column(df, Head(product_columns))
        THEN <<Head(product_columns)>> ELSE <<>>)
       \o fallback_cost_cols(Tail(product_columns), df)

product_cost_cols(self_product_df, df) ==
  IF suffixed_cost_cols(df.cols) # <<>> THEN suffixed_cost_cols(df.cols)
  ELSE IF ~self_product_df.none THEN fallback_cost_cols(self_product_df.cols, df)
  ELSE <<>>

\* df[target] = pd.to_numeric(df[candidates[0]], errors='coerce').fillna(v),
\* or the default v on every row when there is no candidate column
numeric_or_default(df, target, candidates, v) ==
  set_column(df, target,
    IF candidates # <<>>
    THEN [r \in 1..Len(df.rows) |->
            fillna(to_numeric(df.rows[r][col_index(df, candidates[1])]), v)]
    ELSE [r \in 1..Len(df.rows) |-> v])

\* a unit cost that defaults to 1 instead of 0
with_unit_cost_default_one(self_product_df, df) ==
  numeric_or_default(df, ColUnitCost, product_cost_cols(self_product_df, df), IntC(1))

\* df['单位成本']
with_unit_cost(self_product_df, df) ==
  numeric_or_default(df, ColUnitCost, product_cost_cols(self_product_df, df), IntC(0))

\* a quantity that defaults to 0 instead of 1
with_quantity_default_zero(df) ==
  numeric_or_default(df, ColQuantity, columns_matching(df.cols, QtyKeywords), IntC(0))

\* df['数量']
with_quantity(df) ==
  numeric_or_default(df, ColQuantity, columns_matching(df.cols, QtyKeywords), IntC(1))

\* Series.round(d) on a whole column
round_column(df, c, d) ==
  set_column(df, c, [r \in 1..Len(df.rows) |-> FRound(df.rows[r][col_index(df, c)], d)])

\* df['销售收入']
with_revenue(df) ==
  round_column(
    numeric_or_default(df, ColRevenue, columns_matching(df.cols, CalcAmountKeywords), IntC(0)),
    ColRevenue, 2)

\* df['总成本'] = (df['单位成本'] * df['数量']).round(2)
with_total_cost(df) ==
  set_column(df, ColTotalCost,
    [r \in 1..Len(df.rows) |->
       FRound(FMul(df.rows[r][col_index(df, ColUnitCost)],
                   df.rows[r][col_index(df, ColQuantity)]), 2)])

\* df['利润'] = (df['销售收入'] - df['总成本']).round(2)
with_profit(df) ==
  set_column(df, ColProfit,
    [r \in 1..Len(df.rows) |->
       FRound(FSub(df.rows[r][col_index(df, ColRevenue)],
                   df.rows[r][col_index(df, ColTotalCost)]), 2)])

\* np.where(revenue > 0, (profit / revenue).round(4), 0) on one row
margin_of(profit, revenue) ==
  IF FGt0(revenue) THEN FRound(FDiv(profit, revenue), 4) ELSE IntC(0)

\* df['毛利率']
with_margin(df) ==
  set_column(df, ColMargin,
    [r \in 1..Len(df.rows) |->
       margin_of(df.rows[r][col_index(df, ColProfit)],
                 df.rows[r][col_index(df, ColRevenue)])])

\* df.replace([np.inf, -np.inf], 0) then df.fillna(0), on one cell
sanitize_cell(c) == IF c.k \in {"pinf", "ninf", "nan"} THEN IntC(0) ELSE c

\* replace and fillna work in place: every column keeps its dtype
sanitize(df) ==
  [df EXCEPT !.rows = [r \in 1..Len(df.rows) |->
                         [i \in 1..Len(df.cols) |-> sanitize_cell(df.rows[r][i])]]]

calculate_costs_and_profits(self_product_df, matched_df) ==
  IF empty(matched_df) THEN EmptyDF
  ELSE sanitize(
         tag_column(
           with_margin(with_profit(with_total_cost(with_revenue(with_quantity(
             with_unit_cost(self_product_df, matched_df)))))),
           ColProcessedAt, TxtNow))

(***************************************************************************)
(* get_summary_statistics, analyze_by_shop, safe_json_convert              *)
(***************************************************************************)
\* JSON null / Python None in a numeric slot
NullC == [k |-> "null", n |-> 0, m |-> 1, big |-> FALSE, s |-> <<>>]

\* safe_json_convert on a scalar.  The values it receives are Python floats
\* and ints (float(...), int(...), round(...)), never numpy scalars, so the
\* isinstance(np.integer, np.floating) branch is not taken: pd.isna(obj) turns
\* NaN into None and every other value is returned as it is.
safe_json_convert(c) == IF c.k = "nan" THEN NullC ELSE c

\* Series.mean(): NaN on an empty selection
series_mean(cells) == FDiv(series_sum(cells), IntC(Len(cells)))

\* pd.to_numeric(df.get(c, 0), errors='coerce').fillna(0)
numeric_column(df, c) ==
  [r \in 1..Len(df.rows) |-> fillna(to_numeric(df.rows[r][col_index(df, c)]), IntC(0))]

\* margin[revenue > 0].mean() if total_revenue > 0 else 0.0
avg_margin_of(df, total_revenue) ==
  IF FGt0(total_revenue)
  THEN series_mean(mask_select(numeric_column(df, ColMargin),
                               [r \in 1..Len(df.rows) |->
                                  FGt0(numeric_column(df, ColRevenue)[r])]))
  ELSE IntC(0)

\* a shop count that counts the rows instead of the distinct shops
total_shops_counting_rows(df, shop_cols) ==
  IF shop_cols # <<>> THEN IntC(Len(df.rows)) ELSE IntC(0)

\* total_shops: nunique of the first shop column, 0 without one
total_shops_of(df, shop_cols) ==
  IF shop_cols # <<>> THEN IntC(nunique(column(df, shop_cols[1]))) ELSE IntC(0)

EmptySummary ==
  [present |-> FALSE, total_records |-> NullC, total_shops |-> NullC,
   total_cost |-> NullC, total_revenue |-> NullC, total_profit |-> NullC,
   avg_margin |-> NullC]

\* the summary dict, each value through safe_json_convert
summary_record(df, total_cost, total_revenue) ==
  [present |-> TRUE,
   total_records |-> safe_json_convert(IntC(Len(df.rows))),
   total_shops |-> safe_json_convert(
                     total_shops_of(df, columns_matching(df.cols, ShopKeywords))),
   total_cost |-> safe_json_convert(total_cost),
   total_revenue |-> safe_json_convert(total_revenue),
   total_profit |-> safe_json_convert(PyRound(FSub(total_revenue, total_cost), 2)),
   avg_margin |-> safe_json_convert(avg_margin_of(df, total_revenue))]

get_summary_statistics(processed_df) ==
  IF empty(processed_df) THEN EmptySummary
  ELSE summary_record(processed_df,
                      series_sum(numeric_column(processed_df, ColTotalCost)),
                      series_sum(numeric_column(processed_df, ColRevenue)))

\* Series.dropna().unique(): distinct non-missing values, first appearance first
RECURSIVE unique_values(_, _)
unique_values(cells, seen) ==
  IF cells = <<>> THEN <<>>
  ELSE IF Head(cells).k = "nan" \/ Head(cells) \in seen
       THEN unique_values(Tail(cells), seen)
       ELSE <<Head(cells)>> \o unique_values(Tail(cells), seen \cup {Head(cells)})

\* the metrics of one shop's rows
shop_record(shop_name, sub, total_cost, total_rev) ==
  [shop_name |-> shop_name,
   total_orders |-> safe_json_convert(IntC(Len(sub.rows))),
   total_cost |-> safe_json_convert(total_cost),
   total_revenue |-> safe_json_convert(total_rev),
   total_profit |-> safe_json_convert(PyRound(FSub(total_rev, total_cost), 2)),
   avg_margin |-> safe_json_convert(avg_margin_of(sub, total_rev))]

\* sub = processed_df[processed_df[shop_col] == shop] and its entry
shop_entry(sub, shop_name) ==
  shop_record(shop_name, sub,
              series_sum(numeric_column(sub, ColTotalCost)),
              series_sum(numeric_column(sub, ColRevenue)))

\* the entries of the shops, in order of first appearance
shop_entries(processed_df, shop_col, shops) ==
  [x \in 1..Len(shops) |->
     shop_entry(select_rows(processed_df,
                  [r \in 1..Len(processed_df.rows) |->
                     column(processed_df, shop_col)[r] = shops[x]]),
                astype_str(shops[x], processed_df.dt[col_index(processed_df, shop_col)]))]

analyze_by_shop(processed_df) ==
  IF empty(processed_df) THEN <<>>
  ELSE IF columns_matching(processed_df.cols, ShopKeywords) = <<>> THEN <<>>
  ELSE shop_entries(processed_df,
                    columns_matching(processed_df.cols, ShopKeywords)[1],
                    unique_values(column(processed_df,
                                    columns_matching(processed_df.cols, ShopKeywords)[1]),
                                  {}))

(***************************************************************************)
(* UploadProcessor.process_data                                            *)
(***************************************************************************)
\* the analysis dict; present = FALSE is the empty dict {}
EmptyAnalysis ==
  [present |-> FALSE, summary |-> EmptySummary, shop_analysis |-> <<>>,
   original_lines |-> 0, cleaned_lines |-> 0, cleaned_orders |-> 0, matched_lines |-> 0]

\* int(processed_data[order_id_col].nunique()) if order_id_col else 0
cleaned_order_count(processed, order_id_cols) ==
  IF order_id_cols # <<>> THEN nunique(column(processed, order_id_cols[1])) ELSE 0

\* the pair process_data returns after the three stages, and the stored result
process_result(self_order_df, cleaned_orders, processed) ==
  [raised |-> FALSE, df |-> processed,
   analysis |->
     [present |-> TRUE,
      summary |-> get_summary_statistics(processed),
      shop_analysis |-> analyze_by_shop(processed),
      original_lines |-> Len(self_order_df.rows),
      cleaned_lines |-> Len(cleaned_orders.rows),
      cleaned_orders |->
        cleaned_order_count(processed, columns_matching(processed.cols, OrderIdKeywords)),
      matched_lines |-> Len(processed.rows)],
   processed_data |-> processed]

\* process_data from the matching on; an exception of the matcher leaves the
\* method and self.processed_data is not assigned
process_matched(self_product_df, self_order_df, self_processed_data, cleaned_orders, matched_data) ==
  IF matched_data.raised
  THEN [raised |-> TRUE, df |-> EmptyDF, analysis |-> EmptyAnalysis,
        processed_data |-> self_processed_data]
  ELSE process_result(self_order_df, cleaned_orders,
                      calculate_costs_and_profits(self_product_df, matched_data.df))

\* a pipeline that runs the later stages also when cleaning left nothing
process_cleaned_no_sentinel(self_product_df, self_order_df, self_processed_data, cleaned_orders) ==
  process_matched(self_product_df, self_order_df, self_processed_data, cleaned_orders,
                  match_products_with_orders(self_product_df, cleaned_orders))

\* process_data after cleaning: nothing left returns (pd.DataFrame(), {}) and
\* leaves self.processed_data as it was
process_cleaned(self_product_df, self_order_df, self_processed_data, cleaned_orders) ==
  IF empty(cleaned_orders)
  THEN [raised |-> FALSE, df |-> EmptyDF, analysis |-> EmptyAnalysis,
        processed_data |-> self_processed_data]
  ELSE process_matched(self_product_df, self_order_df, self_processed_data, cleaned_orders,
                       match_products_with_orders(self_product_df, cleaned_orders))

process_data(self_product_df, self_order_df, self_processed_data, filter_options) ==
  process_cleaned(self_product_df, self_order_df, self_processed_data,
                  clean_order_data(self_order_df, filter_options))

(***************************************************************************)
(* UploadProcessor.load_from_files                                         *)
(***************************************************************************)
\* a file pd.read_excel cannot read (missing, not a workbook)
Unreadable == [none |-> TRUE, cols |-> <<<<"unreadable">>>>, dt |-> <<>>, rows |-> <<>>]

\* '商家编码'
ColMerchantCode == <<"shang1", "jia1", "bian1", "ma3">>

\* product_df[product_df['商家编码'] != '商家编码'].reset_index(drop=True)
drop_header_rows(df) ==
  IF has_column(df, ColMerchantCode)
  THEN select_rows(df, [r \in 1..Len(df.rows) |->
                          column(df, ColMerchantCode)[r] # Str(ColMerchantCode)])
  ELSE df

\* outcome of load_from_files: the return value and the two fields afterwards;
\* the catalog is assigned before the order file is read
load_from_files(self_product_df, self_order_df, product_file, order_file) ==
  IF product_file = Unreadable
  THEN [ok |-> FALSE, product_df |-> self_product_df, order_df |-> self_order_df]
  ELSE IF order_file = Unreadable
  THEN [ok |-> FALSE, product_df |-> drop_header_rows(product_file),
        order_df |-> self_order_df]
  ELSE [ok |-> TRUE, product_df |-> drop_header_rows(product_file),
        order_df |-> order_file]

(***************************************************************************)
(* The processor as a state machine                                        *)
(***************************************************************************)
\* most load_from_files calls in one behaviour
MaxLoads == 2

TxtShop1 == <<"S", "1">>

TxtShop2 == <<"S", "2">>

\* filter options a caller passes: none, an empty shop list, one shop
OptionSet ==
  {NoOptions,
   [NoOptions EXCEPT !.given = TRUE],
   [NoOptions EXCEPT !.given = TRUE, !.selected_shops = {TxtShop1}]}

\* the dict the /data/process and /data/export endpoints build from a
\* DataProcessRequest: the shop list and the two flags
RequestOptions ==
  {[given |-> TRUE, selected_shops |-> s,
    include_closed_orders |-> c, include_offline_orders |-> o] :
     s \in {{}, {TxtShop1}}, c \in BOOLEAN, o \in BOOLEAN}

RetNone ==
  [op |-> "none", opts |-> NoOptions, arg |-> NoneDF, raised |-> FALSE, ok |-> TRUE,
   df |-> NoneDF, analysis |-> EmptyAnalysis, src_product |-> 0, src_order |-> 0,
   status |-> 0, valid |-> TRUE, arg_after |-> NoneDF]

\* main_upload.current_processor = None
NoProcessor == "None"

\* no call made yet: run_at names the loads the two tables came from when
\* process_data last ran (-1: it never ran) and run_df is the dataset it returned
ProvInit ==
  [calls |-> 0, product |-> 0, order |-> 0, ok |-> {}, run_at |-> <<-1, -1>>,
   run_df |-> NoneDF,
   uploads |-> 0]

\* the fields and the bookkeeping after load_from_files returned r
StoreLoad(r, product_read, k) ==
  /\ product_df' = r.product_df
  /\ order_df' = r.order_df
  /\ ret' = [RetNone EXCEPT !.op = "load_from_files", !.ok = r.ok]
  /\ prov' = [prov EXCEPT !.calls = k,
                          !.product = IF product_read THEN k ELSE prov.product,
                          !.order = IF r.ok THEN k ELSE prov.order,
                          !.ok = IF r.ok THEN prov.ok \cup {k} ELSE prov.ok]
  /\ UNCHANGED <<processed_data, current_processor>>

\* processor.load_from_files(product_file, order_file)
LoadFromFiles(product_file, order_file) ==
  /\ prov.calls < MaxLoads
  /\ StoreLoad(load_from_files(product_df, order_df, product_file, order_file),
               product_file # Unreadable, prov.calls + 1)

\* the field and the caller's view after process_data ended as r
StoreProcess(r, filter_options) ==
  /\ processed_data' = r.processed_data
  /\ ret' = [RetNone EXCEPT !.op = "process_data", !.opts = filter_options,
                            !.arg = order_df, !.raised = r.raised, !.df = r.df,
                            !.analysis = r.analysis,
                            !.src_product = prov.product, !.src_order = prov.order]
  /\ prov' = [prov EXCEPT !.run_at = <<prov.product, prov.order>>, !.run_df = r.df]
  /\ UNCHANGED <<product_df, order_df, current_processor>>

\* processor.process_data(filter_options)
ProcessData(filter_options) ==
  StoreProcess(process_data(product_df, order_df, processed_data, filter_options),
               filter_options)

\* export_processed_data(output_path): False when no result is stored or the
\* stored one is empty; otherwise the stored result is written, and an
\* exception while writing gives False
export_processed_data(self_processed_data, writable) ==
  IF self_processed_data.none \/ empty(self_processed_data)
  THEN [ok |-> FALSE, written |-> NoneDF]
  ELSE IF writable THEN [ok |-> TRUE, written |-> self_processed_data]
  ELSE [ok |-> FALSE, written |-> NoneDF]

\* the caller's view after export_processed_data ended as r
StoreExport(r) ==
  /\ ret' = [RetNone EXCEPT !.op = "export_processed_data", !.ok = r.ok, !.df = r.written]
  /\ UNCHANGED <<product_df, order_df, processed_data, prov, current_processor>>

\* processor.export_processed_data(path)
ExportProcessedData(writable) ==
  StoreExport(export_processed_data(processed_data, writable))

\* processor.clean_order_data(filter_options)
CleanOrderData(filter_options) ==
  /\ ret.op = "none"
  /\ ret' = [RetNone EXCEPT !.op = "clean_order_data", !.opts = filter_options,
                            !.arg = order_df,
                            !.df = clean_order_data(order_df, filter_options)]
  /\ UNCHANGED <<product_df, order_df, processed_data, prov, current_processor>>

\* the cleaned frame is made the order dataset and cleaned once more with the
\* same filter options
RecleanOrderData ==
  /\ ret.op = "clean_order_data"
  /\ order_df' = ret.df
  /\ ret' = [RetNone EXCEPT !.op = "clean_order_data_again", !.opts = ret.opts,
                            !.arg = ret.df,
                            !.df = clean_order_data(ret.df, ret.opts)]
  /\ UNCHANGED <<product_df, processed_data, prov, current_processor>>

\* the caller's view after match_products_with_orders(arg) ended as r
StoreMatch(r, arg) ==
  /\ ret' = [RetNone EXCEPT !.op = "match_products_with_orders", !.arg = arg,
                            !.arg_after = arg, !.raised = r.raised, !.df = r.df]
  /\ UNCHANGED <<product_df, order_df, processed_data, prov, current_processor>>

\* processor.match_products_with_orders(cleaned), on the frame just cleaned
MatchProductsWithOrders ==
  /\ ret.op = "clean_order_data"
  /\ StoreMatch(match_products_with_orders(product_df, ret.df), ret.df)

\* processor.calculate_costs_and_profits(matched), on the frame just matched
CalculateCostsAndProfits ==
  /\ ret.op = "match_products_with_orders"
  /\ ~ret.raised
  /\ ret' = [RetNone EXCEPT !.op = "calculate_costs_and_profits", !.arg = ret.df,
                            !.arg_after = ret.df,
                            !.df = calculate_costs_and_profits(product_df, ret.df)]
  /\ UNCHANGED <<product_df, order_df, processed_data, prov, current_processor>>

\* a caller that runs the stages by hand, or the whole pipeline at once
NextStages ==
  \/ \E o \in OptionSet : CleanOrderData(o)
  \/ MatchProductsWithOrders
  \/ CalculateCostsAndProfits
  \/ \E o \in OptionSet : ret.op = "none" /\ ProcessData(o)

\* sequences of at most n elements of S
SeqsUpTo(S, n) == UNION {[1..k -> S] : k \in 0..n}

(***************************************************************************)
(* Cleaning: orders with an order number, an amount, a status and a shop   *)
(***************************************************************************)
\* most order rows of a cleaning input
MaxCleanRows == 2

\* '订单号'
ColOrderNo == <<"ding4", "dan1", "hao4">>

\* '买家实付'
ColPaid == <<"mai3", "jia1", "shi2", "fu4">>

\* '线上订单状态'
ColOnlineStatus == <<"xian4", "shang4", "ding4", "dan1", "zhuang4", "tai4">>

\* '店铺名称'
ColShopName == <<"dian4", "pu4", "ming2", "cheng1">>

\* '商品编码'
ColProductCode == <<"shang1", "pin3", "bian1", "ma3">>

\* '成本'
ColCost == <<"cheng2", "ben3">>

\* '已完成'
TxtDone == <<"yi3", "wan2", "cheng2">>

TxtA1 == <<"A", "1">>

TxtB2 == <<"B", "2">>

CleanColumns == <<ColOrderNo, ColPaid, ColOnlineStatus, ColShopName>>

\* order rows: order number 1, 2 or missing, an amount that is positive, zero,
\* negative or not a number, completed; and closed rows of order 1
CleanRowSet ==
  {<<id, amt, Str(TxtDone), Str(TxtShop1)>> :
     id \in {IntC(1), IntC(2), NaN},
     amt \in {IntC(10), IntC(0), IntC(-10), Str(<<"a", "b", "c">>)}}
  \cup {<<IntC(1), amt, Str(TxtClosed), Str(TxtShop1)>> : amt \in {IntC(10), IntC(-10)}}

\* a one-line catalog, so that the later stages have something to join
CatalogA ==
  Frame(<<ColMerchantCode, ColCost>>, <<<<Str(TxtA1), IntC(4)>>>>)

InitClean ==
  /\ product_df = CatalogA
  /\ order_df \in {Frame(CleanColumns, rows) : rows \in SeqsUpTo(CleanRowSet, MaxCleanRows)}
  /\ processed_data = NoneDF
  /\ ret = RetNone
  /\ prov = ProvInit
  /\ current_processor = NoProcessor

SpecClean == InitClean /\ [][NextStages]_vars

(***************************************************************************)
(* Filtering: orders with a mark, two status columns, a shop and a code    *)
(***************************************************************************)
\* most order rows of a filtering input
MaxFilterRows == 2

\* '订单标记'
ColOrderMark == <<"ding4", "dan1", "biao1", "ji4">>

\* '明细状态'
ColDetailStatus == <<"ming2", "xi4", "zhuang4", "tai4">>

\* '刷空单'
TxtFakeEmptyOrder == <<"shua1", "kong1", "dan1">>

\* '退款成功'
TxtRefunded == <<"tui4", "kuan3", "cheng2", "gong1">>

FilterColumns ==
  <<ColOrderNo, ColOrderMark, ColPaid, ColOnlineStatus, ColDetailStatus, ColShopName,
    ColProductCode>>

\* a completed line of order 1 paid 10 in shop S1, with the given mark, the
\* two statuses and the shop
FilterRow(mark, online, detail, shop, amt) ==
  <<IntC(1), mark, amt, online, detail, shop, Str(TxtA1)>>

\* the plain line and lines that differ from it in one field: a mark, a
\* status in either column, the shop, the amount
FilterRowSet ==
  {FilterRow(mark, Str(TxtDone), Str(TxtDone), Str(TxtShop1), IntC(10)) :
     mark \in {NaN, Str(TxtEmptyOrder), Str(TxtFakeEmptyOrder)}}
  \cup {FilterRow(NaN, online, Str(TxtDone), Str(TxtShop1), IntC(10)) :
          online \in {Str(TxtClosed), Str(TxtOffline), NaN}}
  \cup {FilterRow(NaN, Str(TxtDone), detail, Str(TxtShop1), IntC(10)) :
          detail \in {Str(TxtClosed), Str(TxtOffline), Str(TxtRefunded)}}
  \cup {FilterRow(NaN, Str(TxtDone), Str(TxtDone), shop, IntC(10)) :
          shop \in {Str(TxtShop2), NaN}}
  \cup {FilterRow(NaN, Str(TxtDone), Str(TxtDone), Str(TxtShop1), IntC(0))}

InitFilter ==
  /\ product_df = CatalogA
  /\ order_df \in {Frame(FilterColumns, rows) :
                     rows \in SeqsUpTo(FilterRowSet, MaxFilterRows)}
  /\ processed_data = NoneDF
  /\ ret = RetNone
  /\ prov = ProvInit
  /\ current_processor = NoProcessor

\* a request cleans or processes the loaded orders; a cleaned frame may be
\* cleaned again
NextFilter ==
  \/ \E o \in RequestOptions : CleanOrderData(o)
  \/ RecleanOrderData
  \/ \E o \in RequestOptions : ret.op = "none" /\ ProcessData(o)

SpecFilter == InitFilter /\ [][NextFilter]_vars

(***************************************************************************)
(* Matching: a catalog and orders with two code columns each               *)
(***************************************************************************)
\* most order rows of a matching input
MaxMatchRows == 2

\* 'sku'
ColSku == <<"s", "k", "u">>

\* '货号'
ColItemNo == <<"huo4", "hao4">>

TxtPaddedA1 == <<" ", "A", "1">>

\* two catalog lines; the cost tells the first line (4) from the second (9)
MatchCatalogs ==
  {Frame(<<ColMerchantCode, ColSku, ColCost>>,
         <<<<Str(a), Str(b), IntC(4)>>, <<Str(c), Str(d), IntC(9)>>>>) :
     a \in {TxtA1, TxtB2}, b \in {TxtA1, TxtB2},
     c \in {TxtA1, TxtB2}, d \in {TxtA1, TxtB2}}

MatchRowSet ==
  {<<Str(a), Str(b)>> : a \in {TxtA1, TxtB2, TxtPaddedA1}, b \in {TxtA1, TxtB2}}

\* '品名'
ColGoodsName == <<"pin3", "ming2">>

TxtZ9 == <<"Z", "9">>

\* a catalog with no code-like column
CatalogNoCode == Frame(<<ColGoodsName, ColCost>>, <<<<Str(TxtA1), IntC(4)>>>>)

\* orders with no code-like column
OrdersNoCode ==
  {Frame(<<ColOrderNo, ColPaid>>, rows) :
     rows \in SeqsUpTo({<<IntC(1), IntC(10)>>, <<IntC(2), IntC(10)>>}, MaxMatchRows)}

\* orders whose code column has the name of a catalog column ('sku'), with a
\* code the catalogs have (A1) or lack (Z9)
OrdersSameName ==
  {Frame(<<ColSku>>, rows) :
     rows \in SeqsUpTo({<<Str(TxtA1)>>, <<Str(TxtZ9)>>}, MaxMatchRows)}

\* a catalog whose first line has no code (the cell is missing)
CatalogMissingKey ==
  Frame(<<ColMerchantCode, ColCost>>, <<<<NaN, IntC(4)>>, <<Str(TxtB2), IntC(9)>>>>)

\* orders whose only code column has a missing cell on some rows
OrdersMissingKey ==
  {Frame(<<ColProductCode>>, rows) :
     rows \in SeqsUpTo({<<NaN>>, <<Str(TxtA1)>>, <<Str(TxtB2)>>}, MaxMatchRows)}

InitMatch ==
  /\ product_df \in MatchCatalogs \cup {CatalogNoCode, CatalogMissingKey}
  /\ order_df \in {Frame(<<ColProductCode, ColItemNo>>, rows) :
                     rows \in SeqsUpTo(MatchRowSet, MaxMatchRows)}
                  \cup OrdersNoCode \cup OrdersSameName \cup OrdersMissingKey
  /\ processed_data = NoneDF
  /\ ret = RetNone
  /\ prov = ProvInit
  /\ current_processor = NoProcessor

\* a caller that runs the three stages by hand, with no filter
NextMatch ==
  \/ CleanOrderData(NoOptions)
  \/ MatchProductsWithOrders
  \/ CalculateCostsAndProfits

SpecMatch == InitMatch /\ [][NextMatch]_vars

(***************************************************************************)
(* Cost computation: one catalog line, orders with a price and a quantity  *)
(***************************************************************************)
\* most order rows of a cost-computation input
MaxCalcRows == 1

\* rows of the bulk input, whose totals leave the float range
BulkRows == 51

\* '成交价'
ColDealPrice == <<"cheng2", "jiao1", "jia4">>

\* '购买数量'
ColBuyQty == <<"gou4", "mai3", "shu4", "liang4">>

TxtInf == <<"i", "n", "f">>

\* unit costs of the catalog line: plain, negative, missing, the text "inf",
\* and 9e307
CalcCosts == {IntC(4), Num(5, 2), IntC(-3), NaN, Str(TxtInf), Big(90, 1)}

CalcRowSet ==
  {<<Str(sku), price, qty>> :
     sku \in {TxtA1, TxtB2},
     price \in {IntC(10), IntC(0), IntC(-10), Num(417, 125), Str(TxtInf)},
     qty \in {IntC(2), IntC(-1), NaN, Str(<<"x">>)}}

CalcColumns == <<ColProductCode, ColDealPrice, ColBuyQty>>

\* one line of cost 1.79e306, and BulkRows returns (quantity -1) paid 1.79e306
BulkCatalog == Frame(<<ColMerchantCode, ColCost>>, <<<<Str(TxtA1), Big(179, 100)>>>>)

BulkOrders ==
  Frame(CalcColumns, [i \in 1..BulkRows |-> <<Str(TxtA1), Big(179, 100), IntC(-1)>>])

\* orders that carry a cost column of their own and a code the catalog lacks
OwnCostOrders ==
  Frame(<<ColProductCode, ColDealPrice, ColCost>>, <<<<Str(TxtB2), IntC(10), IntC(7)>>>>)

\* a sale of 10 and its reversal of -10: revenue on one line, none in total
ReversedSaleOrders ==
  Frame(CalcColumns,
        <<<<Str(TxtA1), IntC(10), IntC(2)>>, <<Str(TxtA1), IntC(-10), IntC(2)>>>>)

\* one paid line that carries a deal price of 0 before the amount paid
TwoAmountOrders ==
  Frame(<<ColOrderNo, ColProductCode, ColDealPrice, ColPaid>>,
        <<<<IntC(1), Str(TxtA1), IntC(0), IntC(10)>>>>)

InitCalc ==
  /\ \/ /\ product_df \in {Frame(<<ColMerchantCode, ColCost>>, <<<<Str(TxtA1), c>>>>) :
                             c \in CalcCosts}
        /\ order_df \in {Frame(CalcColumns, rows) : rows \in SeqsUpTo(CalcRowSet, MaxCalcRows)}
     \/ product_df = BulkCatalog /\ order_df = BulkOrders
     \/ product_df = CatalogA /\ order_df = OwnCostOrders
     \/ product_df = CatalogA /\ order_df = ReversedSaleOrders
     \/ product_df = CatalogA /\ order_df = TwoAmountOrders
  /\ processed_data = NoneDF
  /\ ret = RetNone
  /\ prov = ProvInit
  /\ current_processor = NoProcessor

SpecCalc == InitCalc /\ [][NextStages]_vars

(***************************************************************************)
(* Exports that lack some of the expected columns                          *)
(***************************************************************************)
\* an order export with a column for every role the pipeline looks for
FullOrderColumns ==
  <<ColOrderNo, ColOrderMark, ColPaid, ColOnlineStatus, ColShopName,
    ColProductCode, ColBuyQty>>

\* a paid line of shop S1 and a closed fake order of shop S2 with a code the
\* catalog lacks
FullOrders ==
  Frame(FullOrderColumns,
        <<<<IntC(1), NaN, IntC(10), Str(TxtDone), Str(TxtShop1), Str(TxtA1), IntC(2)>>,
          <<IntC(2), Str(TxtFakeEmptyOrder), IntC(10), Str(TxtClosed), Str(TxtShop2),
            Str(TxtZ9), IntC(3)>>>>)

\* the sheet df with only the columns at the positions in keep; a sheet with
\* no column has no row
KeepColumns(df, keep) ==
  IF keep = {} THEN EmptyDF
  ELSE Frame([i \in 1..Cardinality(keep) |->
                df.cols[positions([c \in 1..Len(df.cols) |-> c \in keep], 1)[i]]],
             [r \in 1..Len(df.rows) |->
                [i \in 1..Cardinality(keep) |->
                   df.rows[r][positions([c \in 1..Len(df.cols) |-> c \in keep], 1)[i]]]])

InitColumns ==
  /\ product_df \in {KeepColumns(CatalogA, keep) : keep \in SUBSET (1..Len(CatalogA.cols))}
  /\ order_df \in {KeepColumns(FullOrders, keep) : keep \in SUBSET (1..Len(FullOrderColumns))}
  /\ processed_data = NoneDF
  /\ ret = RetNone
  /\ prov = ProvInit
  /\ current_processor = NoProcessor

\* one run of the pipeline on the loaded pair
NextColumns == \E o \in OptionSet : ret.op = "none" /\ ProcessData(o)

SpecColumns == InitColumns /\ [][NextColumns]_vars

(***************************************************************************)
(* The life of a processor: loads and runs of the pipeline                 *)
(***************************************************************************)
ScenarioColumns == <<ColOrderNo, ColProductCode, ColPaid>>

\* orders = [{order_id:1, sku:"A1", paid:10}, {order_id:1, sku:"A1", paid:0}]
OrdersA ==
  Frame(ScenarioColumns,
        <<<<IntC(1), Str(TxtA1), IntC(10)>>, <<IntC(1), Str(TxtA1), IntC(0)>>>>)

\* orders = [{order_id:2, sku:"B1", paid:0}]
OrdersB == Frame(ScenarioColumns, <<<<IntC(2), Str(<<"B", "1">>), IntC(0)>>>>)

\* an order sheet with its header line and no rows
OrdersNoRows == Frame(ScenarioColumns, <<>>)

\* catalog = [{code:"A1", cost:4}, {code:"A1", cost:9}]
CatalogC ==
  Frame(<<ColMerchantCode, ColCost>>,
        <<<<Str(TxtA1), IntC(4)>>, <<Str(TxtA1), IntC(9)>>>>)

\* a catalog sheet whose header line is repeated among the rows
CatalogRepeatedHeader ==
  Frame(<<ColMerchantCode, ColCost>>,
        <<<<Str(ColMerchantCode), Str(ColCost)>>, <<Str(TxtA1), IntC(4)>>>>)

\* a catalog sheet with its header line and no rows
CatalogNoRows == Frame(<<ColMerchantCode, ColCost>>, <<>>)

ProductFiles == {CatalogA, CatalogC, CatalogRepeatedHeader, CatalogNoRows, Unreadable}

OrderFiles == {OrdersA, OrdersB, OrdersNoRows, Unreadable}

\* UploadProcessor.__init__
Init ==
  /\ product_df = NoneDF
  /\ order_df = NoneDF
  /\ processed_data = NoneDF
  /\ ret = RetNone
  /\ prov = ProvInit
  /\ current_processor = NoProcessor

Next ==
  \/ \E pf \in ProductFiles, of \in OrderFiles : LoadFromFiles(pf, of)
  \/ \E o \in OptionSet : ProcessData(o)
  \/ \E writable \in BOOLEAN : ExportProcessedData(writable)

Spec == Init /\ [][Next]_vars

(***************************************************************************)
(* main_upload: the endpoints around the shared processor                  *)
(***************************************************************************)
\* current_processor once upload_files has assigned UploadProcessor() to it
AProcessor == "UploadProcessor"

\* the status the client gets for HTTPException(status_code) raised inside a
\* handler's try block: `except Exception` catches it and raises
\* HTTPException(status_code=500)
raised_in_try(status_code) == 500

\* an order sheet with a shop column that holds a text and a missing cell
OrdersShops ==
  Frame(<<ColOrderNo, ColProductCode, ColPaid, ColShopName>>,
        <<<<IntC(1), Str(TxtA1), IntC(10), Str(TxtShop1)>>,
          <<IntC(2), Str(TxtA1), IntC(10), NaN>>>>)

ServerProductFiles == {CatalogA, Unreadable}

\* the requests tried on the server: the shop list varies, the two flags keep
\* their default
ServerOptions ==
  {o \in RequestOptions : ~o.include_closed_orders /\ ~o.include_offline_orders}

ServerOrderFiles == {OrdersA, OrdersB, OrdersShops, Unreadable}

\* the outcome of a handler that left the processor as it was
Kept(status_code, processor, self_product_df, self_order_df, self_processed_data) ==
  [status |-> status_code, loaded |-> FALSE, current_processor |-> processor,
   product_df |-> self_product_df, order_df |-> self_order_df,
   processed_data |-> self_processed_data]

\* the outcome of upload_files from line 81 on: current_processor is a new
\* UploadProcessor, whose load_from_files returned r
after_load(r) ==
  [status |-> IF r.ok THEN 200 ELSE 500, loaded |-> TRUE, current_processor |-> AProcessor,
   product_df |-> r.product_df, order_df |-> r.order_df, processed_data |-> NoneDF]

\* POST /upload/files: the file names are checked and the files saved inside
\* the try block; then the processor is replaced and the files are loaded
upload_files(processor, self_product_df, self_order_df, self_processed_data, names_ok, saved, product_file, order_file) ==
  IF ~names_ok
  THEN Kept(raised_in_try(400), processor, self_product_df, self_order_df, self_processed_data)
  ELSE IF ~saved
  THEN Kept(500, processor, self_product_df, self_order_df, self_processed_data)
  ELSE after_load(load_from_files(NoneDF, NoneDF, product_file, order_file))

\* sorted(self.order_df[shop].unique().tolist()) raises TypeError when the
\* column holds texts next to numbers or missing cells
get_available_shops_raises(self_order_df) ==
  /\ ~self_order_df.none
  /\ columns_matching(self_order_df.cols, ShopKeywords) # <<>>
  /\ \E r1 \in 1..Len(self_order_df.rows), r2 \in 1..Len(self_order_df.rows) :
       /\ column(self_order_df, first_column(columns_matching(self_order_df.cols, ShopKeywords)))[r1].k = "str"
       /\ column(self_order_df, first_column(columns_matching(self_order_df.cols, ShopKeywords)))[r2].k # "str"

\* the status of /data/process once process_data ended as r; the loop over
\* the records calls pd.isna, and the name pd is bound only when the module
\* runs as a script (line 267)
process_status(r, pd_defined) ==
  IF r.raised THEN 500
  ELSE IF empty(r.df) THEN 200
  ELSE IF pd_defined THEN 200 ELSE 500

\* the status of /data/export once process_data ended as r
export_status(r, writable) ==
  IF r.raised THEN 500
  ELSE IF empty(r.df) THEN raised_in_try(400)
  ELSE IF export_processed_data(r.processed_data, writable).ok THEN 200
  ELSE raised_in_try(500)

\* DELETE /files/clear: the processor is reset after the files are removed;
\* an os.remove that raises leaves it as it was
clear_uploaded_files_keeping(processor, removed) ==
  [status |-> IF removed THEN 200 ELSE 500, current_processor |-> processor]

clear_uploaded_files(processor, removed) ==
  IF removed THEN [status |-> 200, current_processor |-> NoProcessor]
  ELSE [status |-> 500, current_processor |-> processor]

\* the answer 400 of the three data endpoints while current_processor is None
Reject(op) ==
  /\ current_processor = NoProcessor
  /\ ret' = [RetNone EXCEPT !.op = op, !.status = 400, !.ok = FALSE]
  /\ UNCHANGED <<product_df, order_df, processed_data, prov, current_processor>>

\* the state after upload_files ended as r
StoreUpload(r, names_ok, product_read, k) ==
  /\ current_processor' = r.current_processor
  /\ product_df' = r.product_df
  /\ order_df' = r.order_df
  /\ processed_data' = r.processed_data
  /\ ret' = [RetNone EXCEPT !.op = "POST /upload/files", !.status = r.status,
                            !.valid = names_ok, !.ok = (r.status = 200)]
  /\ prov' = IF r.loaded
             THEN [prov EXCEPT !.uploads = prov.uploads + 1, !.calls = k,
                               !.product = IF product_read THEN k ELSE 0,
                               !.order = IF r.status = 200 THEN k ELSE 0,
                               !.ok = IF r.status = 200 THEN prov.ok \cup {k} ELSE prov.ok,
                               !.run_at = <<-1, -1>>, !.run_df = NoneDF]
             ELSE [prov EXCEPT !.uploads = prov.uploads + 1]

UploadFiles(names_ok, saved, product_file, order_file) ==
  /\ prov.uploads < MaxLoads
  /\ prov.calls < MaxLoads
  /\ StoreUpload(upload_files(current_processor, product_df, order_df, processed_data,
                              names_ok, saved, product_file, order_file),
                 names_ok, product_file # Unreadable, prov.calls + 1)

\* GET /data/shops
GetAvailableShops ==
  \/ Reject("GET /data/shops")
  \/ /\ current_processor # NoProcessor
     /\ ret' = [RetNone EXCEPT !.op = "GET /data/shops",
                               !.raised = get_available_shops_raises(order_df),
                               !.status = IF get_available_shops_raises(order_df)
                                          THEN 500 ELSE 200]
     /\ UNCHANGED <<product_df, order_df, processed_data, prov, current_processor>>

\* the state after a data endpoint ran process_data, which ended as r
StoreRequest(op, r, filter_options, status_code) ==
  /\ processed_data' = r.processed_data
  /\ ret' = [RetNone EXCEPT !.op = op, !.opts = filter_options, !.arg = order_df,
                            !.raised = r.raised, !.df = r.df, !.analysis = r.analysis,
                            !.src_product = prov.product, !.src_order = prov.order,
                            !.status = status_code, !.ok = (status_code = 200)]
  /\ prov' = [prov EXCEPT !.run_at = <<prov.product, prov.order>>, !.run_df = r.df]
  /\ UNCHANGED <<product_df, order_df, current_processor>>

\* POST /data/process
ProcessRequest(filter_options, pd_defined) ==
  \/ Reject("POST /data/process")
  \/ /\ current_processor # NoProcessor
     /\ StoreRequest("POST /data/process",
                     process_data(product_df, order_df, processed_data, filter_options),
                     filter_options,
                     process_status(process_data(product_df, order_df, processed_data,
                                                 filter_options), pd_defined))

\* POST /data/export
ExportRequest(filter_options, writable) ==
  \/ Reject("POST /data/export")
  \/ /\ current_processor # NoProcessor
     /\ StoreRequest("POST /data/export",
                     process_data(product_df, order_df, processed_data, filter_options),
                     filter_options,
                     export_status(process_data(product_df, order_df, processed_data,
                                                filter_options), writable))

\* the state after clear_uploaded_files ended as r: a processor that is no
\* longer referenced is gone with its fields
StoreClear(r) ==
  /\ current_processor' = r.current_processor
  /\ ret' = [RetNone EXCEPT !.op = "DELETE /files/clear", !.status = r.status,
                            !.ok = (r.status = 200)]
  /\ IF r.status = 200
     THEN /\ prov' = [prov EXCEPT !.uploads = 0, !.product = 0, !.order = 0,
                                  !.run_at = <<-1, -1>>, !.run_df = NoneDF]
          /\ IF r.current_processor = NoProcessor
             THEN /\ product_df' = NoneDF
                  /\ order_df' = NoneDF
                  /\ processed_data' = NoneDF
             ELSE UNCHANGED <<product_df, order_df, processed_data>>
     ELSE UNCHANGED <<product_df, order_df, processed_data, prov>>

ClearUploadedFiles(removed) == StoreClear(clear_uploaded_files(current_processor, removed))

\* the handlers are coroutines without an await: each request runs to its
\* end before the next one starts
NextServer ==
  \/ \E names_ok \in BOOLEAN, saved \in BOOLEAN :
       \E pf \in ServerProductFiles, of \in ServerOrderFiles :
         UploadFiles(names_ok, saved, pf, of)
  \/ GetAvailableShops
  \/ \E o \in ServerOptions, pd_defined \in BOOLEAN : ProcessRequest(o, pd_defined)
  \/ \E o \in ServerOptions, writable \in BOOLEAN : ExportRequest(o, writable)
  \/ \E removed \in BOOLEAN : ClearUploadedFiles(removed)

SpecServer == Init /\ [][NextServer]_vars

(***************************************************************************)
(* DataProcessor (data_processor.py): the pipeline over fixed column names *)
(***************************************************************************)
\* '商品'
ColGoods == <<"shang1", "pin3">>

\* 'SKU'
ColSKU == <<"S", "K", "U">>

\* '实际价格'
ColActualPrice == <<"shi2", "ji4", "jia4", "ge2">>

\* '一口价'
ColListPrice == <<"yi1", "kou3", "jia4">>

\* '商品名称'
ColProductName == <<"shang1", "pin3", "ming2", "cheng1">>

\* df[names]: the listed columns in the listed order
select_columns(df, names) ==
  Frame(names, [r \in 1..Len(df.rows) |->
                  [i \in 1..Len(names) |-> df.rows[r][col_index(df, names[i])]]])

\* some name of the sequence is not a column of df (KeyError when it is read)
lacks_column(df, names) == \E i \in 1..Len(names) : ~has_column(df, names[i])

\* final_filter on row r: paid, not closed, not offline, no refund
DataProcessor_final_filter(df, r) ==
  /\ column(df, ColPaid)[r].k # "nan"
  /\ column(df, ColOnlineStatus)[r] # Str(TxtClosed)
  /\ column(df, ColDetailStatus)[r] # Str(TxtClosed)
  /\ column(df, ColOnlineStatus)[r] # Str(TxtOffline)
  /\ ~(column(df, ColDetailStatus)[r].k = "str"
        /\ contains(column(df, ColDetailStatus)[r].s, TxtRefund))

\* cleaned_df[cleaned_df['店铺名称'].isin(selected_shops)]
DataProcessor_shop_filter(cleaned_df, filter_options) ==
  IF ~(filter_options.given /\ filter_options.selected_shops # {}) THEN Returned(cleaned_df)
  ELSE IF ~has_column(cleaned_df, ColShopName) THEN Raised
  ELSE Returned(select_rows(cleaned_df,
         [r \in 1..Len(cleaned_df.rows) |->
            /\ column(cleaned_df, ColShopName)[r].k = "str"
            /\ column(cleaned_df, ColShopName)[r].s \in filter_options.selected_shops]))

\* DataProcessor.clean_order_data: works on a copy of self.order_df; a column
\* it names that is missing raises KeyError, and .str on a status column
\* that holds no text raises AttributeError
DataProcessor_clean_order_data(self_order_df, filter_options) ==
  IF self_order_df.none THEN Returned(EmptyDF)
  ELSE IF lacks_column(self_order_df, <<ColPaid, ColOnlineStatus, ColDetailStatus>>) THEN Raised
  ELSE IF self_order_df.rows # <<>>
          /\ self_order_df.dt[col_index(self_order_df, ColDetailStatus)] # "object"
  THEN Raised
  ELSE DataProcessor_shop_filter(
         select_rows(self_order_df,
                     [r \in 1..Len(self_order_df.rows) |->
                        DataProcessor_final_filter(self_order_df, r)]),
         filter_options)

\* the columns of the catalog that the join carries
MergedCatalogColumns ==
  <<ColMerchantCode, ColGoods, ColSKU, ColCost, ColActualPrice, ColListPrice>>

\* DataProcessor.match_products_with_orders: the outcome and the caller's
\* frame afterwards.  The catalog is copied (line 89); the order key is
\* normalised on the frame that was passed in (line 93).
DataProcessor_match_products_with_orders(self_product_df, order_df_arg) ==
  IF self_product_df.none \/ empty(order_df_arg)
  THEN [raised |-> FALSE, df |-> EmptyDF, arg_after |-> order_df_arg]
  ELSE IF ~has_column(self_product_df, ColMerchantCode)
          \/ ~has_column(order_df_arg, ColProductCode)
  THEN [raised |-> TRUE, df |-> EmptyDF, arg_after |-> order_df_arg]
  ELSE IF lacks_column(self_product_df, MergedCatalogColumns)
  THEN [raised |-> TRUE, df |-> EmptyDF,
        arg_after |-> normalize_key(order_df_arg, ColProductCode)]
  ELSE [raised |-> FALSE,
        df |-> merge(normalize_key(order_df_arg, ColProductCode),
                     select_columns(normalize_key(self_product_df, ColMerchantCode),
                                    MergedCatalogColumns),
                     ColProductCode, ColMerchantCode),
        arg_after |-> normalize_key(order_df_arg, ColProductCode)]

\* df[c] = pd.to_numeric(df[c], errors='coerce')
numeric_in_place(df, c) ==
  set_column(df, c, [r \in 1..Len(df.rows) |-> to_numeric(df.rows[r][col_index(df, c)])])

\* df['利润'] = df['买家实付'] - df['成本']
DataProcessor_with_profit(df) ==
  set_column(df, ColProfit,
    [r \in 1..Len(df.rows) |-> FSub(column(df, ColPaid)[r], column(df, ColCost)[r])])

\* df['毛利率'] = np.where(df['买家实付'] > 0, df['利润'] / df['买家实付'], 0)
DataProcessor_with_margin(df) ==
  set_column(df, ColMargin,
    [r \in 1..Len(df.rows) |->
       IF FGt0(column(df, ColPaid)[r])
       THEN FDiv(column(df, ColProfit)[r], column(df, ColPaid)[r]) ELSE IntC(0)])

\* DataProcessor.calculate_costs_and_profits: works on a copy of its argument
DataProcessor_calculate_costs_and_profits(matched_df) ==
  IF empty(matched_df) THEN Returned(EmptyDF)
  ELSE IF lacks_column(matched_df, <<ColPaid, ColCost, ColActualPrice>>) THEN Raised
  ELSE Returned(
         tag_column(
           DataProcessor_with_margin(DataProcessor_with_profit(
             numeric_in_place(numeric_in_place(numeric_in_place(matched_df, ColPaid),
                                               ColCost), ColActualPrice))),
           ColProcessedAt, TxtNow))

\* the columns get_summary_statistics and analyze_by_shop read by name; the
\* figures they compute are returned to the caller and stored nowhere
AnalysisColumns == <<ColShopName, ColProductCode, ColProductName, ColOrderNo>>

\* the last part of DataProcessor.process_data: the analysis, then the
\* assignment of self.processed_data
DataProcessor_process_calculated(self_processed_data, calculated) ==
  IF calculated.raised \/ lacks_column(calculated.df, AnalysisColumns)
  THEN [raised |-> TRUE, df |-> EmptyDF, processed_data |-> self_processed_data]
  ELSE [raised |-> FALSE, df |-> calculated.df, processed_data |-> calculated.df]

DataProcessor_process_matched(self_processed_data, matched) ==
  IF matched.raised
  THEN [raised |-> TRUE, df |-> EmptyDF, processed_data |-> self_processed_data]
  ELSE DataProcessor_process_calculated(self_processed_data,
         DataProcessor_calculate_costs_and_profits(matched.df))

DataProcessor_process_cleaned(self_product_df, self_processed_data, cleaned) ==
  IF cleaned.raised
  THEN [raised |-> TRUE, df |-> EmptyDF, processed_data |-> self_processed_data]
  ELSE IF empty(cleaned.df)
  THEN [raised |-> FALSE, df |-> EmptyDF, processed_data |-> self_processed_data]
  ELSE DataProcessor_process_matched(self_processed_data,
         DataProcessor_match_products_with_orders(self_product_df, cleaned.df))

DataProcessor_process_data(self_product_df, self_order_df, self_processed_data, filter_options) ==
  DataProcessor_process_cleaned(self_product_df, self_processed_data,
    DataProcessor_clean_order_data(self_order_df, filter_options))

\* most order rows of a DataProcessor input
MaxLegacyRows == 2

\* one catalog line with every column the join carries
LegacyCatalog ==
  Frame(MergedCatalogColumns,
        <<<<Str(TxtA1), Str(TxtZ9), Str(TxtB2), IntC(4), IntC(10), IntC(12)>>>>)

LegacyOrderColumns ==
  <<ColOrderNo, ColPaid, ColOnlineStatus, ColDetailStatus, ColShopName,
    ColProductCode, ColProductName>>

\* order lines of shop S1: paid or not, open or closed, the code as text,
\* as text with a leading blank, or as a number
LegacyRowSet ==
  {<<IntC(1), paid, Str(TxtDone), Str(TxtDone), Str(TxtShop1), code, Str(TxtZ9)>> :
     paid \in {IntC(10), NaN}, code \in {Str(TxtA1), Str(TxtPaddedA1), IntC(7)}}
  \cup {<<IntC(2), IntC(10), Str(TxtClosed), Str(TxtDone), Str(TxtShop1), Str(TxtA1),
          Str(TxtZ9)>>}

\* DataProcessor.__init__ after _load_data read the two workbooks
InitLegacy ==
  /\ product_df = LegacyCatalog
  /\ order_df \in {Frame(LegacyOrderColumns, rows) :
                     rows \in SeqsUpTo(LegacyRowSet, MaxLegacyRows)}
  /\ processed_data = NoneDF
  /\ ret = RetNone
  /\ prov = ProvInit
  /\ current_processor = NoProcessor

\* the caller's view after a DataProcessor stage ended as r on the frame arg,
\* which is arg_after when the stage returns
StoreStage(op, filter_options, arg, arg_after, r) ==
  /\ ret' = [RetNone EXCEPT !.op = op, !.opts = filter_options, !.arg = arg,
                            !.arg_after = arg_after, !.raised = r.raised, !.df = r.df]
  /\ UNCHANGED <<product_df, order_df, processed_data, prov, current_processor>>

\* processor.clean_order_data(filter_options) on a DataProcessor
DataProcessor_CleanOrderData(filter_options) ==
  /\ ret.op = "none"
  /\ StoreStage("DataProcessor.clean_order_data", filter_options, order_df, order_df,
                DataProcessor_clean_order_data(order_df, filter_options))

\* processor.match_products_with_orders(cleaned), on the frame just cleaned
DataProcessor_MatchProductsWithOrders ==
  /\ ret.op = "DataProcessor.clean_order_data"
  /\ ~ret.raised
  /\ StoreStage("DataProcessor.match_products_with_orders", NoOptions, ret.df,
                DataProcessor_match_products_with_orders(product_df, ret.df).arg_after,
                DataProcessor_match_products_with_orders(product_df, ret.df))

\* processor.calculate_costs_and_profits(matched), on the frame just matched
DataProcessor_CalculateCostsAndProfits ==
  /\ ret.op = "DataProcessor.match_products_with_orders"
  /\ ~ret.raised
  /\ StoreStage("DataProcessor.calculate_costs_and_profits", NoOptions, ret.df, ret.df,
                DataProcessor_calculate_costs_and_profits(ret.df))

\* the field and the caller's view after DataProcessor.process_data ended as r
DataProcessor_StoreProcess(r, filter_options) ==
  /\ processed_data' = r.processed_data
  /\ ret' = [RetNone EXCEPT !.op = "DataProcessor.process_data", !.opts = filter_options,
                            !.arg = order_df, !.raised = r.raised, !.df = r.df]
  /\ UNCHANGED <<product_df, order_df, prov, current_processor>>

\* processor.process_data(filter_options) on a DataProcessor
DataProcessor_ProcessData(filter_options) ==
  /\ ret.op = "none"
  /\ DataProcessor_StoreProcess(
       DataProcessor_process_data(product_df, order_df, processed_data, filter_options),
       filter_options)

\* a caller of either processor over the same pair of datasets
NextLegacy ==
  \/ \E o \in OptionSet : DataProcessor_CleanOrderData(o)
  \/ DataProcessor_MatchProductsWithOrders
  \/ DataProcessor_CalculateCostsAndProfits
  \/ \E o \in OptionSet : DataProcessor_ProcessData(o)
  \/ NextStages

SpecLegacy == InitLegacy /\ [][NextLegacy]_vars

(***************************************************************************)
(* Properties of the datasets a stage is given                             *)
(***************************************************************************)
\* the stages that are passed a dataset, on either processor
ArgumentStages ==
  {"match_products_with_orders", "calculate_costs_and_profits",
   "DataProcessor.match_products_with_orders",
   "DataProcessor.calculate_costs_and_profits"}

\* every stage and the whole pipeline, on either processor
PipelineCalls ==
  ArgumentStages \cup {"clean_order_data", "process_data",
                       "DataProcessor.clean_order_data", "DataProcessor.process_data"}

\* C22: no stage modifies a dataset it did not create: a call of
\* clean_order_data, match_products_with_orders, calculate_costs_and_profits
\* or process_data, on UploadProcessor and on DataProcessor, leaves the loaded
\* catalog and orders as they were, and the dataset passed to a stage is the
\* same after the call as before it.
C22_StagesLeaveTheirInputs ==
  /\ [](ret.op \in ArgumentStages => ret.arg_after = ret.arg)
  /\ [][ret'.op \in PipelineCalls => UNCHANGED <<product_df, order_df>>]_vars

(***************************************************************************)
(* Properties of the main_upload endpoints                                 *)
(***************************************************************************)
DataRequests == {"GET /data/shops", "POST /data/process", "POST /data/export"}

\* C24: the shared processor is replaced only after the new pair of files has
\* loaded: an /upload/files request that is not answered 200 leaves the
\* processor and its datasets as they were, and a /data/process request that
\* finds a processor never finds one that holds only one of the two datasets.
C24_ProcessorReplacedAfterLoad ==
  /\ [](((ret.op = "POST /data/process" /\ ret.status # 400))
          => (product_df.none <=> order_df.none))
  /\ [][(ret'.op = "POST /upload/files" /\ ret'.status # 200)
          => UNCHANGED <<current_processor, product_df, order_df, processed_data>>]_vars

\* C29: /data/shops, /data/process and /data/export are answered 400 whenever
\* no /upload/files request was made since start-up or since the last
\* /files/clear that succeeded, and a /files/clear that succeeds leaves the
\* current processor None.
C29_DataRequestsNeedAnUpload ==
  /\ (ret.op \in DataRequests /\ prov.uploads = 0) => ret.status = 400
  /\ (ret.op = "DELETE /files/clear" /\ ret.status = 200) => current_processor = NoProcessor

\* C29 witness: files were uploaded and loaded, then cleared, and the
\* /data/process request that follows is answered 400
C29_RejectedAfterClear ==
  /\ ret.op = "POST /data/process"
  /\ ret.status = 400
  /\ prov.ok # {}
  /\ prov.uploads = 0

\* C30: a client error raised inside a handler reaches the client with its
\* own status: an /upload/files request with a file name that is not
\* .xlsx/.xls is answered 400, and a /data/export request whose processing
\* yields no rows is answered 400.
C30_ClientErrorsKeepTheirStatus ==
  /\ (ret.op = "POST /upload/files" /\ ~ret.valid) => ret.status = 400
  /\ (ret.op = "POST /data/export" /\ current_processor # NoProcessor
        /\ ~ret.raised /\ empty(ret.df)) => ret.status = 400

(***************************************************************************)
(* Properties of clean_order_data                                          *)
(***************************************************************************)
\* no shop filter is in force
NoShopFilter(opts) == ~opts.given \/ opts.selected_shops = {}

\* the orders as the cleaner reads them: the amount column made numeric
AsRead(orders) ==
  coerce_column(orders, first_column(columns_matching(orders.cols, CleanAmountKeywords)),
                IntC(0))

\* the rows (by position) of the orders as read that pass the mark/status
\* exclusion
PassedRows(read) ==
  {r \in 1..Len(read.rows) :
     base_filter_row(read, r, columns_matching(read.cols, MarkKeywords),
                     columns_matching(read.cols, StatusKeywords))}

\* the order identifier and the amount of row r
IdAt(read, r) ==
  read.rows[r][col_index(read, first_column(columns_matching(read.cols, OrderIdKeywords)))]

AmountAt(read, r) ==
  read.rows[r][col_index(read, first_column(columns_matching(read.cols, CleanAmountKeywords)))]

\* the positions of the passed rows of order id, ascending
GroupOf(read, passed, id) ==
  positions([r \in 1..Len(read.rows) |-> r \in passed /\ IdAt(read, r) = id], 1)

\* the sum of the amounts of a group
RECURSIVE GroupTotal(_, _)
GroupTotal(read, group) ==
  IF group = <<>> THEN IntC(0)
  ELSE FAdd(AmountAt(read, Head(group)), GroupTotal(read, Tail(group)))

\* the rows of a frame that carry order id, in order
RowsWithId(df, id) ==
  SelectSeq(df.rows,
    LAMBDA row : row[col_index(df, first_column(columns_matching(df.cols, OrderIdKeywords)))] = id)

CleanedWithoutShopFilter ==
  /\ ret.op = "clean_order_data"
  /\ NoShopFilter(ret.opts)
  /\ columns_matching(ret.arg.cols, CleanAmountKeywords) # <<>>
  /\ columns_matching(ret.arg.cols, OrderIdKeywords) # <<>>

\* C1: clean_order_data without a shop filter, on orders with an amount and an
\* order-identifier column: of the rows that passed the mark/status exclusion,
\* grouped by order identifier, every row of a group whose amounts sum to more
\* than 0 is in the output (also a row whose own amount is 0 or negative), and
\* no row of a group whose amounts sum to 0 or less is in the output.
C1_OrderLevelAmountFilter ==
  CleanedWithoutShopFilter =>
    LET read == AsRead(ret.arg)
        passed == PassedRows(read)
    IN \A r \in passed :
         IdAt(read, r).k # "nan" =>
           LET group == GroupOf(read, passed, IdAt(read, r))
           IN IF FGt0(GroupTotal(read, group))
              THEN RowsWithId(ret.df, IdAt(read, r))
                     = [x \in 1..Len(group) |-> read.rows[group[x]]]
              ELSE RowsWithId(ret.df, IdAt(read, r)) = <<>>

\* C1 witness: an order whose amounts sum to more than 0 keeps a row whose own
\* amount is not positive, next to a row of the same order
C1_ZeroRowOfPaidOrderKept ==
  /\ CleanedWithoutShopFilter
  /\ LET read == AsRead(ret.arg)
         passed == PassedRows(read)
     IN \E r \in passed :
          /\ IdAt(read, r).k # "nan"
          /\ FLe0(AmountAt(read, r))
          /\ FGt0(GroupTotal(read, GroupOf(read, passed, IdAt(read, r))))
          /\ Len(RowsWithId(ret.df, IdAt(read, r))) = 2

\* C21: the dataset clean_order_data returns contains no two rows that are
\* equal in every column (exact full-row duplicates of the orders are dropped).
C21_NoFullRowDuplicates ==
  ret.op = "clean_order_data" =>
    \A r1 \in 1..Len(ret.df.rows), r2 \in 1..Len(ret.df.rows) :
      r1 < r2 => ret.df.rows[r1] # ret.df.rows[r2]

\* C28: when an amount column and an order-identifier column exist, no row
\* whose order identifier is missing is in the output of clean_order_data,
\* whatever its amount.
C28_MissingIdentifierDropped ==
  (ret.op = "clean_order_data"
     /\ columns_matching(ret.arg.cols, CleanAmountKeywords) # <<>>
     /\ columns_matching(ret.arg.cols, OrderIdKeywords) # <<>>) =>
    \A r \in 1..Len(ret.df.rows) : IdAt(ret.df, r).k # "nan"

\* C28 witness: of two paid lines that pass the mark/status step, the one
\* without an order number is dropped and the other is returned
C28_PaidLineWithoutIdentifierDropped ==
  /\ CleanedWithoutShopFilter
  /\ Len(ret.arg.rows) = 2
  /\ PassedRows(AsRead(ret.arg)) = {1, 2}
  /\ \E r \in 1..2 :
       IdAt(AsRead(ret.arg), r).k = "nan" /\ FGt0(AmountAt(AsRead(ret.arg), r))
  /\ Len(ret.df.rows) = 1

\* C11: cleaning is idempotent on row count: when the output of
\* clean_order_data is made the order dataset and cleaned again with the same
\* filter options, the second output has as many rows as the first.
C11_CleaningIdempotentOnRowCount ==
  ret.op = "clean_order_data_again" => Len(ret.df.rows) = Len(ret.arg.rows)

\* the cells of row r in the status-classified columns, and in the first
\* mark-classified column
StatusCells(df, r) ==
  {df.rows[r][col_index(df, columns_matching(df.cols, StatusKeywords)[j])] :
     j \in 1..Len(columns_matching(df.cols, StatusKeywords))}

HasEmptyMark(df, r) ==
  /\ columns_matching(df.cols, MarkKeywords) # <<>>
  /\ df.rows[r][col_index(df, columns_matching(df.cols, MarkKeywords)[1])].k = "str"
  /\ contains(df.rows[r][col_index(df, columns_matching(df.cols, MarkKeywords)[1])].s,
              TxtEmptyOrder)

IsClosed(df, r) == Str(TxtClosed) \in StatusCells(df, r)

IsOffline(df, r) == Str(TxtOffline) \in StatusCells(df, r)

IsRefund(df, r) == \E c \in StatusCells(df, r) : c.k = "str" /\ contains(c.s, TxtRefund)

\* every line has an order number and a positive amount, so that the amount
\* filter removes nothing
AllPaid(read) ==
  /\ columns_matching(read.cols, CleanAmountKeywords) # <<>>
  /\ columns_matching(read.cols, OrderIdKeywords) # <<>>
  /\ \A r \in 1..Len(read.rows) : IdAt(read, r).k # "nan" /\ FGt0(AmountAt(read, r))

\* the lines a request keeps when its include_* flags are honoured
KeptByRequest(read, opts) ==
  {r \in 1..Len(read.rows) :
     /\ ~HasEmptyMark(read, r)
     /\ ~IsRefund(read, r)
     /\ IsClosed(read, r) => opts.include_closed_orders
     /\ IsOffline(read, r) => opts.include_offline_orders}

\* C12: a request with include_closed_orders = true retains the lines whose
\* status equals 'closed', one with include_offline_orders = true retains the
\* lines whose status equals '[offline order]', and with the flags false
\* those lines are excluded: on orders whose lines are all paid, and with no
\* shop selected, process_data returns as many lines as the request keeps.
C12_IncludeFlagsRetainRows ==
  (ret.op = "process_data" /\ ~ret.raised /\ ~ret.arg.none
     /\ AllPaid(AsRead(ret.arg)) /\ NoShopFilter(ret.opts)) =>
    Len(ret.df.rows) = Cardinality(KeptByRequest(AsRead(ret.arg), ret.opts))

\* the shop of row r: the cell of the first shop-classified column
ShopAt(df, r) == df.rows[r][col_index(df, columns_matching(df.cols, ShopKeywords)[1])]

InSelectedShops(df, r, opts) ==
  ShopAt(df, r).k = "str" /\ ShopAt(df, r).s \in opts.selected_shops

\* C13: on orders with a shop column, when selected_shops is non-empty every
\* returned row has a shop that is a member of selected_shops, and the rows
\* returned are exactly the member rows of the output without a selection,
\* in order; when selected_shops is absent or empty the output is the one
\* without a selection (the shop step removes no row).
C13_ShopFilterKeepsMembers ==
  (ret.op = "clean_order_data" /\ columns_matching(ret.arg.cols, ShopKeywords) # <<>>) =>
    LET all == clean_order_data(ret.arg, NoOptions)
    IN IF ret.opts.given /\ ret.opts.selected_shops # {}
       THEN /\ \A r \in 1..Len(ret.df.rows) : InSelectedShops(ret.df, r, ret.opts)
            /\ ret.df.rows = mask_select(all.rows,
                                [r \in 1..Len(all.rows) |-> InSelectedShops(all, r, ret.opts)])
       ELSE ret.df = all

\* C13 witness: a shop is selected, and of two lines that pass the other
\* steps the one without a shop, or of another shop, is removed
C13_OtherShopRemoved ==
  /\ ret.op = "clean_order_data"
  /\ ret.opts.given /\ ret.opts.selected_shops # {}
  /\ Len(clean_order_data(ret.arg, NoOptions).rows) = 2
  /\ Len(ret.df.rows) = 1
  /\ InSelectedShops(ret.df, 1, ret.opts)

\* the row is excluded by the mark or by a status
MarkOrStatusExcludes(df, r) ==
  HasEmptyMark(df, r) \/ IsClosed(df, r) \/ IsRefund(df, r) \/ IsOffline(df, r)

\* C20: clean_order_data excludes a row if and only if the first mark column
\* contains 'empty order' or some status column equals 'closed', contains
\* 'refund' or equals '[offline order]': no such row is ever returned, and on
\* orders whose lines are all paid, with no shop selected, the rows returned
\* are exactly the other rows, in order.
C20_MarkAndStatusExclusion ==
  ret.op = "clean_order_data" =>
    /\ \A r \in 1..Len(ret.df.rows) : ~MarkOrStatusExcludes(ret.df, r)
    /\ (AllPaid(AsRead(ret.arg)) /\ NoShopFilter(ret.opts)) =>
         ret.df.rows =
           mask_select(AsRead(ret.arg).rows,
                       [r \in 1..Len(ret.arg.rows) |->
                          ~MarkOrStatusExcludes(AsRead(ret.arg), r)])

\* C20 witness: of two paid lines the one whose second status column says
\* 'closed' is excluded and the other, whose first status is missing, is kept
C20_SecondStatusExcludes ==
  /\ ret.op = "clean_order_data"
  /\ NoShopFilter(ret.opts)
  /\ AllPaid(AsRead(ret.arg))
  /\ Len(ret.arg.rows) = 2
  /\ Len(ret.df.rows) = 1
  /\ \E r \in 1..2 :
       /\ ret.arg.rows[r][col_index(ret.arg, ColDetailStatus)] = Str(TxtClosed)
       /\ ret.arg.rows[r][col_index(ret.arg, ColOnlineStatus)] = Str(TxtDone)
  /\ ret.df.rows[1][col_index(ret.df, ColOnlineStatus)] = NaN

(***************************************************************************)
(* Properties of match_products_with_orders                                *)
(***************************************************************************)
\* the matcher returned a join (not the orders tagged, not an empty frame)
JoinReturned ==
  /\ ret.op = "match_products_with_orders"
  /\ ~ret.raised
  /\ ~empty(ret.df)
  /\ ~has_column(ret.df, ColMatchStatus)

\* the candidate code columns of the catalog and of the orders matched
CatalogCandidates == columns_matching(product_df.cols, SkuKeywords)

OrderCandidates == columns_matching(ret.arg.cols, SkuKeywords)

\* the join of pairing (i, j) and its score
JoinOf(i, j) == pair_join(product_df, ret.arg, CatalogCandidates[i], OrderCandidates[j])

Score(i, j) == matched_count(JoinOf(i, j), CatalogCandidates[i])

\* pairing (i2, j2) is enumerated before (i, j): catalog loop outside
Before(i2, j2, i, j) == i2 < i \/ (i2 = i /\ j2 < j)

\* the rows of a frame whose key in column c occurs in no earlier row
FirstPerKey(df, c) ==
  select_rows(df, [r \in 1..Len(df.rows) |->
                     \A q \in 1..(r - 1) : column(df, c)[q] # column(df, c)[r]])

\* C3: the matcher joins the orders against the catalog deduplicated on the
\* catalog key column, first occurrence kept: the join has exactly one row per
\* order row, carrying the fields of the first catalog row with that key.
C3_JoinsDeduplicatedCatalog ==
  JoinReturned =>
    /\ Len(ret.df.rows) = Len(ret.arg.rows)
    /\ \E i \in 1..Len(CatalogCandidates), j \in 1..Len(OrderCandidates) :
         ret.df = merge(normalize_key(ret.arg, OrderCandidates[j]),
                        FirstPerKey(normalize_key(product_df, CatalogCandidates[i]),
                                    CatalogCandidates[i]),
                        OrderCandidates[j], CatalogCandidates[i])

\* C4: over the pairings enumerated catalog candidate outside, order candidate
\* inside, the pairing whose join is returned scores at least as much as every
\* other pairing, and strictly more than every pairing enumerated before it.
C4_FirstBestPairing ==
  JoinReturned =>
    \E i \in 1..Len(CatalogCandidates), j \in 1..Len(OrderCandidates) :
      /\ ret.df = JoinOf(i, j)
      /\ \A i2 \in 1..Len(CatalogCandidates), j2 \in 1..Len(OrderCandidates) :
           /\ Score(i2, j2) <= Score(i, j)
           /\ Before(i2, j2, i, j) => Score(i2, j2) < Score(i, j)

\* C4 witness: two pairings tie at the best score with different joins, and
\* the join of the earlier one is returned
C4_TieResolvedToFirst ==
  /\ JoinReturned
  /\ \E i \in 1..Len(CatalogCandidates), j \in 1..Len(OrderCandidates) :
       \E i2 \in 1..Len(CatalogCandidates), j2 \in 1..Len(OrderCandidates) :
         /\ Before(i, j, i2, j2)
         /\ Score(i, j) = Score(i2, j2)
         /\ JoinOf(i, j) # JoinOf(i2, j2)
         /\ ret.df = JoinOf(i, j)
         /\ \A i3 \in 1..Len(CatalogCandidates), j3 \in 1..Len(OrderCandidates) :
              Score(i3, j3) <= Score(i, j)

\* the value of output column c on row r
Out(c, r) == ret.df.rows[r][col_index(ret.df, c)]

\* the matcher ran on a loaded catalog and found no code-like column on one
\* of the two sides
NoCandidates ==
  /\ ret.op = "match_products_with_orders"
  /\ ~product_df.none
  /\ (CatalogCandidates = <<>> \/ OrderCandidates = <<>>)

\* C14: if the catalog or the orders have no SKU-like candidate column, the
\* matcher returns the orders: as many rows, in the same order, each with its
\* original column values and tagged match_status = unmatched, and with no
\* column that the orders did not have except the tag.
C14_NoCandidatesTaggedUnmatched ==
  NoCandidates =>
    /\ ~ret.raised
    /\ Len(ret.df.rows) = Len(ret.arg.rows)
    /\ \A i \in 1..Len(ret.df.cols) :
         ret.df.cols[i] = ColMatchStatus \/ has_column(ret.arg, ret.df.cols[i])
    /\ ret.df.rows # <<>> => has_column(ret.df, ColMatchStatus)
    /\ \A r \in 1..Len(ret.df.rows) :
         /\ Out(ColMatchStatus, r) = Str(TxtUnmatched)
         /\ \A i \in 1..Len(ret.arg.cols) : Out(ret.arg.cols[i], r) = ret.arg.rows[r][i]

\* C14 witness: the catalog has no code column, the orders have two, and
\* both order rows come back tagged
C14_CatalogWithoutCode ==
  /\ NoCandidates
  /\ CatalogCandidates = <<>>
  /\ Len(OrderCandidates) = 2
  /\ Len(ret.df.rows) = 2
  /\ Out(ColMatchStatus, 2) = Str(TxtUnmatched)

\* the order rows that have a catalog counterpart under pairing (i, j): some
\* catalog row carries the same code, both read as stripped text
Counterparts(i, j) ==
  {r \in 1..Len(ret.arg.rows) :
     \E q \in 1..Len(product_df.rows) :
       column(normalize_key(ret.arg, OrderCandidates[j]), OrderCandidates[j])[r]
         = column(normalize_key(product_df, CatalogCandidates[i]), CatalogCandidates[i])[q]}

\* C15: with candidates on both sides, the matcher returns the orders
\* unchanged and tagged match_status = match_failed exactly when under every
\* pairing no order row has a catalog counterpart, also for a pairing whose
\* catalog column and order column have the same name.
C15_MatchFailedIffNoCounterpart ==
  (ret.op = "match_products_with_orders" /\ ~ret.raised /\ ~product_df.none
     /\ ~empty(ret.arg) /\ CatalogCandidates # <<>> /\ OrderCandidates # <<>>) =>
    ((ret.df = tag_column(ret.arg, ColMatchStatus, TxtMatchFailed))
       <=> \A i \in 1..Len(CatalogCandidates), j \in 1..Len(OrderCandidates) :
             Counterparts(i, j) = {})

\* the order rows whose cell in order column c is missing
MissingKeyRows(c) ==
  {r \in 1..Len(ret.arg.rows) : ret.arg.rows[r][col_index(ret.arg, c)].k = "nan"}

\* C27: an order row whose key in the winning order column is missing is
\* never joined to a catalog row and never counted as matched, also when the
\* catalog has a row whose key is missing: when only such rows pair, the
\* matcher reports match_failed, and in a returned join the catalog fields of
\* such a row are missing.
C27_MissingKeyNeverJoined ==
  (ret.op = "match_products_with_orders" /\ ~ret.raised /\ ~product_df.none
     /\ ~empty(ret.arg) /\ Len(CatalogCandidates) = 1 /\ Len(OrderCandidates) = 1
     /\ CatalogCandidates[1] # OrderCandidates[1] /\ has_column(product_df, ColCost)) =>
    /\ (\A r \in Counterparts(1, 1) : r \in MissingKeyRows(OrderCandidates[1]))
         => ret.df = tag_column(ret.arg, ColMatchStatus, TxtMatchFailed)
    /\ (JoinReturned /\ Len(ret.df.rows) = Len(ret.arg.rows)) =>
         \A r \in MissingKeyRows(OrderCandidates[1]) :
           /\ Out(CatalogCandidates[1], r) = NaN
           /\ Out(ColCost, r) = NaN

(***************************************************************************)
(* Properties of calculate_costs_and_profits and of the analysis           *)
(***************************************************************************)
\* calculate_costs_and_profits returned rows
Calculated == ret.op = "calculate_costs_and_profits" /\ ~empty(ret.df)

NotANumber(c) == c.k \in {"nan", "pinf", "ninf"}

\* the numeric values of a summary or of one shop's entry
MetricsOf(rec) ==
  {rec.total_cost, rec.total_revenue, rec.total_profit, rec.avg_margin}

\* C5: no cell of the dataset returned by calculate_costs_and_profits, and no
\* value of the analysis record built by get_summary_statistics and
\* analyze_by_shop, is NaN, +Infinity or -Infinity.
C5_NoNaNOrInfinity ==
  /\ ret.op \in {"calculate_costs_and_profits", "process_data"} =>
       \A r \in 1..Len(ret.df.rows) : \A i \in 1..Len(ret.df.cols) :
         ~NotANumber(ret.df.rows[r][i])
  /\ (ret.op = "process_data" /\ ret.analysis.present /\ ret.analysis.summary.present) =>
       /\ \A v \in MetricsOf(ret.analysis.summary) : ~NotANumber(v)
       /\ \A x \in 1..Len(ret.analysis.shop_analysis) :
            \A v \in MetricsOf(ret.analysis.shop_analysis[x]) : ~NotANumber(v)

\* C6: on every returned row total_cost = round(unit_cost * quantity, 2),
\* profit = round(revenue - total_cost, 2), and margin = round(profit /
\* revenue, 4) when revenue > 0 and 0 otherwise.
C6_RowFormulas ==
  Calculated =>
    \A r \in 1..Len(ret.df.rows) :
      /\ Out(ColTotalCost, r) = FRound(FMul(Out(ColUnitCost, r), Out(ColQuantity, r)), 2)
      /\ Out(ColProfit, r) = FRound(FSub(Out(ColRevenue, r), Out(ColTotalCost, r)), 2)
      /\ Out(ColMargin, r) =
           IF FGt0(Out(ColRevenue, r))
           THEN FRound(FDiv(Out(ColProfit, r), Out(ColRevenue, r)), 4)
           ELSE IntC(0)

\* the cost-named columns of the matched frame that came from the catalog:
\* suffixed '_product', or a catalog column name the order table does not have
CatalogCostColumns(matched) ==
  SelectSeq(matched.cols, LAMBDA c : is_cost_name(c) /\ endswith(c, SuffixProduct))
  \o SelectSeq(matched.cols,
       LAMBDA c : /\ is_cost_name(c)
                  /\ ~endswith(c, SuffixProduct)
                  /\ has_column(product_df, c)
                  /\ ~has_column(order_df, c))

\* C7: the unit cost of a row is read only from a column that came from the
\* catalog ('_product'-suffixed cost column first, else a cost-named catalog
\* column of the matched frame); when the matched frame carries none, the unit
\* cost is 0 on every row, even if the order table has a cost-named column.
C7_UnitCostOnlyFromCatalog ==
  Calculated =>
    \A r \in 1..Len(ret.df.rows) :
      Out(ColUnitCost, r) =
        IF CatalogCostColumns(ret.arg) # <<>>
        THEN sanitize_cell(fillna(to_numeric(
               ret.arg.rows[r][col_index(ret.arg, CatalogCostColumns(ret.arg)[1])]), IntC(0)))
        ELSE IntC(0)

\* the quantity columns of the matched frame
QuantityColumns(matched) == columns_matching(matched.cols, QtyKeywords)

\* C8: on every returned row quantity >= 0; quantity is the numeric value of
\* the first quantity-classified column, and 1 when there is no such column or
\* the row's value is absent or not numeric.
C8_QuantityNonNegative ==
  Calculated =>
    \A r \in 1..Len(ret.df.rows) :
      /\ Out(ColQuantity, r).k = "num" /\ Out(ColQuantity, r).n >= 0
      /\ Out(ColQuantity, r) =
           IF QuantityColumns(ret.arg) = <<>> THEN IntC(1)
           ELSE fillna(to_numeric(
                  ret.arg.rows[r][col_index(ret.arg, QuantityColumns(ret.arg)[1])]), IntC(1))

\* the sum of column c over the rows listed in rs, left to right
RECURSIVE TotalOver(_, _, _)
TotalOver(df, c, rs) ==
  IF rs = <<>> THEN IntC(0)
  ELSE FAdd(TotalOver(df, c, SubSeq(rs, 1, Len(rs) - 1)),
            df.rows[rs[Len(rs)]][col_index(df, c)])

\* the amount column the cleaning reads and the one the cost computation
\* reads, by the names of the order columns (NoCol when there is none)
CleaningAmountColumn(orders) ==
  first_column(columns_matching(orders.cols, CleanAmountKeywords))

RevenueColumn(orders) ==
  first_column(columns_matching(orders.cols, CalcAmountKeywords))

\* the rows of the processed dataset that carry the order number of row r
SameOrderRows(df, r) ==
  positions([q \in 1..Len(df.rows) |-> IdAt(df, q) = IdAt(df, r)], 1)

\* C26: the revenue of a processed row is the coerced value of the order
\* column that clean_order_data used as the amount: the two stages choose the
\* same column, the revenue is that column's value made numeric and rounded
\* to 2 decimals, and every order of the processed output has a revenue sum
\* above 0.
C26_RevenueIsTheCleaningAmount ==
  (ret.op = "process_data" /\ ~ret.raised /\ ~empty(ret.df)
     /\ CleaningAmountColumn(ret.arg) # NoCol) =>
    /\ RevenueColumn(ret.arg) = CleaningAmountColumn(ret.arg)
    /\ has_column(ret.df, CleaningAmountColumn(ret.arg))
    /\ \A r \in 1..Len(ret.df.rows) :
         Out(ColRevenue, r)
           = FRound(fillna(to_numeric(Out(CleaningAmountColumn(ret.arg), r)), IntC(0)), 2)
    /\ columns_matching(ret.df.cols, OrderIdKeywords) # <<>> =>
         \A r \in 1..Len(ret.df.rows) :
           FGt0(TotalOver(ret.df, ColRevenue, SameOrderRows(ret.df, r)))

\* C23: whatever subset of the expected columns (mark, status, amount, order
\* identifier, shop, SKU, cost, quantity) the inputs lack, process_data ends
\* without raising, and a returned row carries the default of every role that
\* is absent: unit cost 0 without a catalog cost column, quantity 1 without
\* a quantity column, revenue 0 without an amount column, match_status
\* unmatched without a code column on one of the two sides.
C23_AbsentColumnsUseDefaults ==
  ret.op = "process_data" =>
    /\ ~ret.raised
    /\ ~empty(ret.df) =>
         /\ has_column(ret.df, ColUnitCost)
         /\ has_column(ret.df, ColQuantity)
         /\ has_column(ret.df, ColRevenue)
         /\ (columns_matching(product_df.cols, SkuKeywords) = <<>>
               \/ columns_matching(ret.arg.cols, SkuKeywords) = <<>>)
              => has_column(ret.df, ColMatchStatus)
         /\ \A r \in 1..Len(ret.df.rows) :
              /\ columns_matching(product_df.cols, CostKeywords) = <<>>
                   => Out(ColUnitCost, r) = IntC(0)
              /\ columns_matching(ret.arg.cols, QtyKeywords) = <<>>
                   => Out(ColQuantity, r) = IntC(1)
              /\ columns_matching(ret.arg.cols, CalcAmountKeywords) = <<>>
                   => Out(ColRevenue, r) = IntC(0)
              /\ (columns_matching(product_df.cols, SkuKeywords) = <<>>
                    \/ columns_matching(ret.arg.cols, SkuKeywords) = <<>>)
                   => Out(ColMatchStatus, r) = Str(TxtUnmatched)

\* C23 witness: the orders have only the order number and the shop, the
\* catalog only its code; both lines come back with unit cost 0, quantity 1,
\* revenue 0 and the tag unmatched
C23_OnlyIdentifierAndShop ==
  /\ ret.op = "process_data"
  /\ ~ret.raised
  /\ ret.arg.cols = <<ColOrderNo, ColShopName>>
  /\ product_df.cols = <<ColMerchantCode>>
  /\ Len(ret.df.rows) = 2
  /\ Out(ColUnitCost, 2) = IntC(0)
  /\ Out(ColQuantity, 2) = IntC(1)
  /\ Out(ColRevenue, 2) = IntC(0)
  /\ Out(ColMatchStatus, 2) = Str(TxtUnmatched)

\* process_data returned rows and an analysis with a summary
Analysed ==
  /\ ret.op = "process_data"
  /\ ~ret.raised
  /\ ret.analysis.present
  /\ ret.analysis.summary.present

\* the rows (positions, ascending) of a scope that have revenue > 0
PaidRowsOf(df, scope) ==
  positions([r \in 1..Len(df.rows) |->
               r \in scope /\ FGt0(df.rows[r][col_index(df, ColRevenue)])], 1)

\* the mean of the margin over the rows of a scope with revenue > 0, 0 if none
MeanMargin(df, scope) ==
  IF PaidRowsOf(df, scope) = <<>> THEN IntC(0)
  ELSE FDiv(TotalOver(df, ColMargin, PaidRowsOf(df, scope)),
            IntC(Len(PaidRowsOf(df, scope))))

\* the rows of the processed dataset whose shop reads as the given name
RowsOfShop(df, name) ==
  {r \in 1..Len(df.rows) :
     astype_str(ShopAt(df, r),
                df.dt[col_index(df, columns_matching(df.cols, ShopKeywords)[1])]) = name}

\* C16: the average margin of the summary, and of each per-shop entry, is the
\* mean of the margin over exactly the rows of that scope with revenue > 0,
\* and 0 when no row of the scope has revenue > 0.
C16_AverageMarginOverPaidRows ==
  Analysed =>
    /\ ret.analysis.summary.avg_margin = MeanMargin(ret.df, 1..Len(ret.df.rows))
    /\ \A x \in 1..Len(ret.analysis.shop_analysis) :
         ret.analysis.shop_analysis[x].avg_margin
           = MeanMargin(ret.df, RowsOfShop(ret.df, ret.analysis.shop_analysis[x].shop_name))

\* the distinct non-null shops of the orders that cleaning kept
CleanedShops ==
  LET cleaned == clean_order_data(ret.arg, ret.opts)
  IN {ShopAt(cleaned, r).s :
        r \in {q \in 1..Len(cleaned.rows) : ShopAt(cleaned, q).k = "str"}}

\* C17: the per-shop breakdown of process_data has one entry per distinct
\* non-null shop value of the orders and none for rows whose shop is null or
\* missing; such rows are not counted as a shop in total_shops.
C17_NullShopsSkipped ==
  (Analysed /\ columns_matching(ret.arg.cols, ShopKeywords) # <<>>) =>
    /\ Len(ret.analysis.shop_analysis) = Cardinality(CleanedShops)
    /\ {ret.analysis.shop_analysis[x].shop_name :
          x \in 1..Len(ret.analysis.shop_analysis)} = CleanedShops
    /\ ret.analysis.summary.total_shops = IntC(Cardinality(CleanedShops))

\* the distinct values of the first shop column of the processed dataset
ProcessedShops ==
  IF columns_matching(ret.df.cols, ShopKeywords) = <<>> THEN {}
  ELSE {ShopAt(ret.df, r) : r \in {q \in 1..Len(ret.df.rows) : ShopAt(ret.df, q).k # "nan"}}

AllRows(df) == [r \in 1..Len(df.rows) |-> r]

\* C19: in the summary total_records is the number of processed rows,
\* total_shops the number of distinct shop values, total_cost and
\* total_revenue the sums of the per-row total cost and revenue, and
\* total_profit = round(total_revenue - total_cost, 2).
C19_SummaryTotals ==
  Analysed =>
    /\ ret.analysis.summary.total_records = IntC(Len(ret.df.rows))
    /\ ret.analysis.summary.total_shops = IntC(Cardinality(ProcessedShops))
    /\ ret.analysis.summary.total_cost = TotalOver(ret.df, ColTotalCost, AllRows(ret.df))
    /\ ret.analysis.summary.total_revenue = TotalOver(ret.df, ColRevenue, AllRows(ret.df))
    /\ ret.analysis.summary.total_profit =
         PyRound(FSub(TotalOver(ret.df, ColRevenue, AllRows(ret.df)),
                      TotalOver(ret.df, ColTotalCost, AllRows(ret.df))), 2)

\* C19 witness: two processed rows of one shop, each with total cost 4
C19_TwoRowsOneShop ==
  /\ Analysed
  /\ Len(ret.df.rows) = 2
  /\ Cardinality(ProcessedShops) = 1
  /\ ret.analysis.summary.total_shops = IntC(1)
  /\ ret.analysis.summary.total_cost = IntC(8)
  /\ ret.analysis.summary.total_revenue = IntC(10)
  /\ ret.analysis.summary.total_profit = IntC(2)

(***************************************************************************)
(* Properties of process_data and load_from_files                          *)
(***************************************************************************)
\* ['规格', 'spec', '型号', 'model']: names of specification/model columns
SpecKeywords ==
  {<<"gui1", "ge2">>, <<"s", "p", "e", "c">>, <<"xing2", "hao4">>,
   <<"m", "o", "d", "e", "l">>}

\* the columns of the composite business key that exist: the first order
\* identifier, the first SKU/merchant code and the first spec/model column
FirstOf(cols) == IF cols = <<>> THEN <<>> ELSE <<cols[1]>>

BusinessKeyColumns(df) ==
  FirstOf(columns_matching(df.cols, OrderIdKeywords))
  \o FirstOf(columns_matching(df.cols, SkuKeywords))
  \o FirstOf(columns_matching(df.cols, SpecKeywords))

BusinessKey(df, r) ==
  [i \in 1..Len(BusinessKeyColumns(df)) |->
     df.rows[r][col_index(df, BusinessKeyColumns(df)[i])]]

\* Scenario A: orders [{1, A1, 10}, {1, A1, 0}] processed with catalog [{A1, 4}]
ScenarioA == ret.op = "process_data" /\ product_df = CatalogA /\ ret.arg = OrdersA

\* C18: Scenario A yields exactly 2 rows, both with unit_cost = 4 and
\* quantity = 1; the first has total_cost = 4, profit = 6, margin = 0.6; the
\* second has revenue = 0, margin = 0, profit = -4.
C18_ScenarioA ==
  ScenarioA =>
    /\ ~ret.raised
    /\ Len(ret.df.rows) = 2
    /\ \A r \in 1..2 : Out(ColUnitCost, r) = IntC(4) /\ Out(ColQuantity, r) = IntC(1)
    /\ Out(ColTotalCost, 1) = IntC(4)
    /\ Out(ColProfit, 1) = IntC(6)
    /\ Out(ColMargin, 1) = Num(3, 5)
    /\ Out(ColRevenue, 2) = IntC(0)
    /\ Out(ColMargin, 2) = IntC(0)
    /\ Out(ColProfit, 2) = IntC(-4)

\* C18 witness: Scenario A was loaded and processed, and returned its rows
C18_ScenarioAProcessed ==
  /\ ScenarioA
  /\ Len(ret.df.rows) = 2
  /\ Out(ColRevenue, 1) = IntC(10)

\* C25: export_processed_data writes only the result of the most recent
\* process_data call on the datasets now loaded: when that call returned the
\* empty result (or there was none), or a dataset was loaded since, it
\* returns False and writes nothing; when it returns True, the rows written
\* are the dataset that call returned.
C25_ExportsOnlyTheLastRun ==
  ret.op = "export_processed_data" =>
    /\ (prov.run_at # <<prov.product, prov.order>> \/ empty(prov.run_df))
         => (~ret.ok /\ ret.df.none)
    /\ ret.ok => ret.df = prov.run_df

\* C2: in the dataset process_data returns no two rows share the same
\* non-empty composite business key (order identifier, SKU, spec/model,
\* whichever exist).
C2_NoDuplicateBusinessKey ==
  ret.op = "process_data" =>
    \A r1 \in 1..Len(ret.df.rows), r2 \in 1..Len(ret.df.rows) :
      (r1 < r2 /\ BusinessKeyColumns(ret.df) # <<>>) =>
        BusinessKey(ret.df, r1) # BusinessKey(ret.df, r2)

\* process_data returned the empty dataset and the empty analysis, no exception
EmptySentinel == ~ret.raised /\ ret.df = EmptyDF /\ ~ret.analysis.present

\* the orders were not loaded, are empty, or are emptied by the cleaning
NothingQualified ==
  \/ ret.arg.none
  \/ empty(ret.arg)
  \/ Len(clean_order_data(ret.arg, ret.opts).rows) = 0

\* C9 as stated: if cleaning removes every row, or either input dataset
\* (catalog or orders) is empty or not loaded, process_data returns an empty
\* dataset and an empty analysis record, without raising.
C9_EmptyInputsGiveEmptyResult ==
  (ret.op = "process_data"
     /\ (NothingQualified \/ product_df.none \/ empty(product_df))) => EmptySentinel

\* C9 amended: if cleaning removes every row, or the orders are empty or not
\* loaded, process_data returns an empty dataset and an empty analysis
\* record, without raising.
C9_NoOrdersGiveEmptyResult ==
  (ret.op = "process_data" /\ NothingQualified) => EmptySentinel

\* C9 witness: orders were loaded with rows, and the cleaning removed them all
C9_CleaningRemovedEveryRow ==
  /\ ret.op = "process_data"
  /\ ~ret.arg.none
  /\ Len(ret.arg.rows) > 0
  /\ Len(clean_order_data(ret.arg, ret.opts).rows) = 0
  /\ EmptySentinel

\* C10: after a failed load a following process_data never computes results
\* from a catalog and an order table that did not come from one successful
\* load.
C10_ResultsFromOneSuccessfulLoad ==
  (ret.op = "process_data" /\ ret.analysis.present) =>
    /\ ret.src_product = ret.src_order
    /\ ret.src_order \in prov.ok

=============================================================================
